---------------------------- MODULE Spec2Model ----------------------------
(***************************************************************************)
(* Swap-event pricing, large-purchase classification and the reference-    *)
(* price oracle of the Uniswap price scraper, modelled from the Python     *)
(* sources.                                                                *)
(*                                                                         *)
(* Python integers are unbounded and Python floats are IEEE-754 doubles.   *)
(* Both are modelled exactly: an integer is a little-endian sequence of    *)
(* limbs in base 2^15 (BigNat), a float is a sign, a 53-bit mantissa and   *)
(* a binary exponent, and every float operation rounds to nearest, ties    *)
(* to even, as the hardware does.  Exponent overflow and subnormals are    *)
(* outside the ranges the model draws its inputs from.                     *)
(***************************************************************************)
EXTENDS Integers, Sequences, FiniteSets, TLC

-----------------------------------------------------------------------------
(* Unbounded naturals (Python int >= 0).                                   *)

Base == 32768
LimbBits == 15

RECURSIVE BigNorm(_)
BigNorm(a) ==
    IF a = << >> THEN << >>
    ELSE IF a[Len(a)] = 0 THEN BigNorm(SubSeq(a, 1, Len(a) - 1))
    ELSE a

RECURSIVE Big(_)
Big(n) == IF n = 0 THEN << >> ELSE << n % Base >> \o Big(n \div Base)

RECURSIVE BigCmpFrom(_, _, _)
BigCmpFrom(a, b, i) ==
    IF i = 0 THEN 0
    ELSE IF a[i] < b[i] THEN -1
    ELSE IF a[i] > b[i] THEN 1
    ELSE BigCmpFrom(a, b, i - 1)

BigCmp(a, b) ==
    IF Len(a) < Len(b) THEN -1
    ELSE IF Len(a) > Len(b) THEN 1
    ELSE BigCmpFrom(a, b, Len(a))

BigLt(a, b) == BigCmp(a, b) < 0
BigLe(a, b) == BigCmp(a, b) <= 0
BigGe(a, b) == BigCmp(a, b) >= 0
BigGt(a, b) == BigCmp(a, b) > 0

Limb(a, i) == IF i <= Len(a) THEN a[i] ELSE 0

RECURSIVE BigAddFrom(_, _, _, _)
BigAddFrom(a, b, i, c) ==
    IF i > Len(a) /\ i > Len(b)
    THEN (IF c = 0 THEN << >> ELSE << c >>)
    ELSE LET s == Limb(a, i) + Limb(b, i) + c
         IN  << s % Base >> \o BigAddFrom(a, b, i + 1, s \div Base)

BigAdd(a, b) == BigAddFrom(a, b, 1, 0)

RECURSIVE BigSubFrom(_, _, _, _)
BigSubFrom(a, b, i, c) ==
    IF i > Len(a) THEN << >>
    ELSE LET d == Limb(a, i) - Limb(b, i) - c
         IN  IF d < 0
             THEN << d + Base >> \o BigSubFrom(a, b, i + 1, 1)
             ELSE << d >> \o BigSubFrom(a, b, i + 1, 0)

(* a - b for a >= b *)
BigSub(a, b) == BigNorm(BigSubFrom(a, b, 1, 0))

RECURSIVE BigMulSmallFrom(_, _, _, _)
BigMulSmallFrom(a, k, i, c) ==
    IF i > Len(a) THEN (IF c = 0 THEN << >> ELSE << c >>)
    ELSE LET p == a[i] * k + c
         IN  << p % Base >> \o BigMulSmallFrom(a, k, i + 1, p \div Base)

(* a * k + c for 0 <= k < Base, 0 <= c < Base *)
BigMulSmall(a, k, c) == BigNorm(BigMulSmallFrom(a, k, 1, c))

BigShiftLimbs(a, n) ==
    IF a = << >> THEN << >> ELSE [i \in 1..n |-> 0] \o a

RECURSIVE BigMul(_, _)
BigMul(a, b) ==
    IF a = << >> \/ b = << >> THEN << >>
    ELSE BigAdd(BigMulSmall(a, Head(b), 0), BigShiftLimbs(BigMul(a, Tail(b)), 1))

RECURSIVE Pow2Small(_)
Pow2Small(k) == IF k = 0 THEN 1 ELSE 2 * Pow2Small(k - 1)

RECURSIVE BitLenSmall(_)
BitLenSmall(n) == IF n = 0 THEN 0 ELSE 1 + BitLenSmall(n \div 2)

BigBitLen(a) ==
    IF a = << >> THEN 0
    ELSE LimbBits * (Len(a) - 1) + BitLenSmall(a[Len(a)])

(* a * 2^k *)
BigShl(a, k) ==
    BigShiftLimbs(BigMulSmall(a, Pow2Small(k % LimbBits), 0), k \div LimbBits)

(* floor(a / 2^k) *)
BigShr(a, k) ==
    LET n == k \div LimbBits
        r == k % LimbBits
        hi == IF n >= Len(a) THEN << >> ELSE SubSeq(a, n + 1, Len(a))
    IN  BigNorm([i \in 1..Len(hi) |->
                    (hi[i] \div Pow2Small(r))
                  + (Limb(hi, i + 1) % Pow2Small(r)) * Pow2Small(LimbBits - r)])

BigBit(a, i) == (Limb(a, (i \div LimbBits) + 1) \div Pow2Small(i % LimbBits)) % 2

BigIsOdd(a) == a # << >> /\ a[1] % 2 = 1

(* the largest d < Base with b * d <= r, found bit by bit from the top *)
RECURSIVE QuotDigit(_, _, _, _)
QuotDigit(b, r, d, j) ==
    IF j < 0 THEN d
    ELSE IF BigLe(BigMulSmall(b, d + Pow2Small(j), 0), r)
         THEN QuotDigit(b, r, d + Pow2Small(j), j - 1)
         ELSE QuotDigit(b, r, d, j - 1)

(* Long division, one limb of a at a time from the top: <<quotient, remainder>> *)
RECURSIVE BigDivModFrom(_, _, _, _, _)
BigDivModDigit(a, b, i, r2, q, d) ==
    IF d >= 0
    THEN BigDivModFrom(a, b, i - 1, BigSub(r2, BigMulSmall(b, d, 0)), << d >> \o q)
    ELSE << q, r2 >>

BigDivModLimb(a, b, i, r2, q) ==
    BigDivModDigit(a, b, i, r2, q, QuotDigit(b, r2, 0, LimbBits - 1))

BigDivModFrom(a, b, i, r, q) ==
    IF i = 0 THEN << BigNorm(q), r >>
    ELSE BigDivModLimb(a, b, i, BigNorm(<< a[i] >> \o r), q)

BigDivMod(a, b) == BigDivModFrom(a, b, Len(a), << >>, << >>)

(* Python a // b for a >= 0, b > 0 *)
BigFloorDiv(a, b) == BigDivMod(a, b)[1]

RECURSIVE BigPow(_, _)
BigPow(b, n) == IF n = 0 THEN << 1 >> ELSE BigMulSmall(BigPow(b, n - 1), b, 0)

(* 10 ** d, tabulated for the decimals the model uses *)
Pow10Table == [d \in 0..19 |-> BigPow(10, d)]
Pow10(d) == Pow10Table[d]

(* Python int: sign and magnitude *)
SInt(neg, mag) == [neg |-> neg /\ mag # << >>, mag |-> mag]
SAbs(x) == x.mag
SIsNeg(x) == x.neg
SIsPos(x) == ~x.neg /\ x.mag # << >>

-----------------------------------------------------------------------------
(* IEEE-754 doubles (Python float): value = (-1)^neg * m * 2^e with        *)
(* 2^52 <= m < 2^53, or m = 0.                                             *)

MantBits == 53

FZero == [neg |-> FALSE, m |-> << >>, e |-> 0]

(* Round (n + f) * 2^e to a double, where 0 <= f < 1 and sticky says f > 0; *)
(* with sticky set, n has more than MantBits bits.                         *)
(* m1 is the rounded mantissa; a carry out of MantBits bits renormalises *)
FRoundCarry(neg, m1, e) ==
    IF BigBitLen(m1) > MantBits
    THEN [neg |-> neg, m |-> BigShr(m1, 1), e |-> e + 1]
    ELSE [neg |-> neg, m |-> m1, e |-> e]

(* c compares the dropped bits with one half: ties go to the even mantissa *)
FRoundNearest(neg, hi, c, e, sticky) ==
    FRoundCarry(neg,
                IF c > 0 \/ (c = 0 /\ (sticky \/ BigIsOdd(hi)))
                THEN BigAdd(hi, << 1 >>) ELSE hi,
                e)

(* hi is n without its k low bits *)
FRoundSplit(neg, n, hi, k, e, sticky) ==
    FRoundNearest(neg, hi,
                  BigCmp(BigSub(n, BigShl(hi, k)), BigShl(<< 1 >>, k - 1)),
                  e + k, sticky)

(* L is the bit length of n *)
FRoundLen(neg, n, e, sticky, L) ==
    IF L <= MantBits
    THEN [neg |-> neg, m |-> BigShl(n, MantBits - L), e |-> e - (MantBits - L)]
    ELSE FRoundSplit(neg, n, BigShr(n, L - MantBits), L - MantBits, e, sticky)

FRound(neg, n, e, sticky) ==
    IF n = << >> THEN FZero ELSE FRoundLen(neg, n, e, sticky, BigBitLen(n))

(* float(n) for an int n >= 0 *)
FOfBig(n) == FRound(FALSE, n, 0, FALSE)

(* the correctly rounded quotient (a * 2^ea) / (b * 2^eb), b > 0 *)
FQuotRound(neg, qr, e) == FRound(neg, qr[1], e, qr[2] # << >>)

(* a is scaled by 2^s so that the quotient has more than MantBits bits *)
FQuotScaled(neg, a, ea, b, eb, s) ==
    FQuotRound(neg, BigDivMod(BigShl(a, s), b), ea - eb - s)

FQuotShift(d) == IF d > 0 THEN d ELSE 0

FQuot(neg, a, ea, b, eb) ==
    IF a = << >> THEN FZero
    ELSE FQuotScaled(neg, a, ea, b, eb,
                     FQuotShift((MantBits + 2) + BigBitLen(b) - BigBitLen(a)))

(* Python a / b for ints a >= 0, b > 0 (long_true_divide: correctly rounded) *)
FDivBig(a, b) == FQuot(FALSE, a, 0, b, 0)

(* Python x / y for floats, y # 0 *)
FDiv(x, y) == FQuot(x.neg # y.neg, x.m, x.e, y.m, y.e)

(* Python x * y for floats *)
FMul(x, y) == FRound(x.neg # y.neg, BigMul(x.m, y.m), x.e + y.e, FALSE)

FAbs(x) == [x EXCEPT !.neg = FALSE]

FIsZero(x) == x.m = << >>
FGt0(x) == x.m # << >> /\ ~x.neg
FLt0(x) == x.m # << >> /\ x.neg

(* comparison of magnitudes of two doubles *)
FCmpMag(x, y) ==
    IF x.m = << >> THEN (IF y.m = << >> THEN 0 ELSE -1)
    ELSE IF y.m = << >> THEN 1
    ELSE IF x.e < y.e THEN -1
    ELSE IF x.e > y.e THEN 1
    ELSE BigCmp(x.m, y.m)

FCmp(x, y) ==
    IF FLt0(x) THEN (IF FLt0(y) THEN FCmpMag(y, x) ELSE -1)
    ELSE IF FLt0(y) THEN 1
    ELSE FCmpMag(x, y)

FGe(x, y) == FCmp(x, y) >= 0
FLe(x, y) == FCmp(x, y) <= 0

(* int(x) for a float x >= 0: truncation *)
FTrunc(x) ==
    IF x.m = << >> THEN << >>
    ELSE IF x.e >= 0 THEN BigShl(x.m, x.e)
    ELSE BigShr(x.m, 0 - x.e)

FOne == FOfBig(<< 1 >>)

(* Python x - y for floats x >= 0 and y >= 0: the exact difference of the  *)
(* two values, rounded                                                     *)
FSubAt(x, y, e) ==
    IF BigGe(BigShl(x.m, x.e - e), BigShl(y.m, y.e - e))
    THEN FRound(FALSE, BigSub(BigShl(x.m, x.e - e), BigShl(y.m, y.e - e)), e, FALSE)
    ELSE FRound(TRUE, BigSub(BigShl(y.m, y.e - e), BigShl(x.m, x.e - e)), e, FALSE)

FSub(x, y) ==
    IF FIsZero(y) THEN x
    ELSE IF FIsZero(x) THEN [y EXCEPT !.neg = TRUE]
    ELSE FSubAt(x, y, IF x.e < y.e THEN x.e ELSE y.e)

-----------------------------------------------------------------------------
(* Addresses.  str.lower() maps a checksum-cased address to its lower-case  *)
(* form and leaves a lower-case address alone.                             *)

WETH == "0xc02aaa39b223fe8d0a0e5c4f27ead9083c756cc2"
WETH_CHECKSUM == "0xC02aaA39b223FE8D0A0e5C4F27eAD9083C756Cc2"
USDT == "0xdac17f958d2ee523a2206206994597c13d831ec7"
TKN == "0x6982508145454ce325ddbe47a25d4ec3d2311933"
TKN_CHECKSUM == "0x6982508145454Ce325dDbE47a25d4ec3d2311933"
OTHER_TOKEN == "0x1f9840a85d5af5bf1d1762f925bdaddc4201f984"

Lower(a) ==
    IF a = WETH_CHECKSUM THEN WETH
    ELSE IF a = TKN_CHECKSUM THEN TKN
    ELSE a

-----------------------------------------------------------------------------
(* Sample raw amounts: the first MaxAmountIdx entries are drawn.            *)

AmountSamples ==
    << << >>,                                   \* 0
       Big(3),
       Big(11),
       Pow10(17),                               \* 0.1 token of 18 decimals
       BigMulSmall(Pow10(19), 5, 0),            \* 50 tokens of 18 decimals
       Big(49),
       Big(1) >>

MaxAmountIdx == 4

Amounts == { AmountSamples[i] : i \in 1..MaxAmountIdx }

V2Events ==
    [amount0In : Amounts, amount1In : Amounts,
     amount0Out : Amounts, amount1Out : Amounts]

(* pool_info as get_pool_info returns it: lower-cased addresses, decimals  *)
PricePools ==
    { [token0 |-> TKN, token1 |-> WETH, decimals0 |-> 18, decimals1 |-> 18],
      [token0 |-> USDT, token1 |-> WETH, decimals0 |-> 6, decimals1 |-> 18] }

TargetTokens == { TKN_CHECKSUM, WETH, USDT, OTHER_TOKEN }

-----------------------------------------------------------------------------
(* Price calculators.  A result is None or a float.                        *)

None == [st |-> "None", v |-> FZero]
Price(x) == [st |-> "price", v |-> x]
Unset == [st |-> "unset", v |-> FZero]

(* UniswapV2Extractor.calculate_token_price *)
V2CalculateTokenPrice_NoInvert(decoded_event, pool_info, token_address) ==
    LET tok == Lower(token_address)
        a0in == FDivBig(decoded_event.amount0In, Pow10(pool_info.decimals0))
        a1in == FDivBig(decoded_event.amount1In, Pow10(pool_info.decimals1))
        a0out == FDivBig(decoded_event.amount0Out, Pow10(pool_info.decimals0))
        a1out == FDivBig(decoded_event.amount1Out, Pow10(pool_info.decimals1))
    IN  IF tok = pool_info.token0 \/ tok = pool_info.token1
        THEN IF FGt0(a0in) /\ FGt0(a1out) THEN Price(FDiv(a1out, a0in))
             ELSE IF FGt0(a1in) /\ FGt0(a0out) THEN Price(FDiv(a1in, a0out))
             ELSE None
        ELSE None

V2CalculateTokenPrice_BothNull(decoded_event, pool_info, token_address) ==
    IF /\ decoded_event.amount0In # << >> /\ decoded_event.amount1Out # << >>
       /\ decoded_event.amount1In # << >> /\ decoded_event.amount0Out # << >>
    THEN None
    ELSE V2CalculateTokenPrice_NoInvert(decoded_event, pool_info, token_address)

V2PriceOfAmounts(tok, info, a0in, a1in, a0out, a1out) ==
    IF tok = info.token0
    THEN IF FGt0(a0in) /\ FGt0(a1out) THEN Price(FDiv(a1out, a0in))
         ELSE IF FGt0(a1in) /\ FGt0(a0out) THEN Price(FDiv(a1in, a0out))
         ELSE None
    ELSE IF tok = info.token1
    THEN IF FGt0(a1in) /\ FGt0(a0out) THEN Price(FDiv(a0out, a1in))
         ELSE IF FGt0(a0in) /\ FGt0(a1out) THEN Price(FDiv(a0in, a1out))
         ELSE None
    ELSE None

V2CalculateTokenPrice(event, info, token) ==
    V2PriceOfAmounts(Lower(token), info,
                     FDivBig(event.amount0In, Pow10(info.decimals0)),
                     FDivBig(event.amount1In, Pow10(info.decimals1)),
                     FDivBig(event.amount0Out, Pow10(info.decimals0)),
                     FDivBig(event.amount1Out, Pow10(info.decimals1)))

(* PriceCalculator.calculate_token_price: raw amounts, token ignored *)
PCCalculateTokenPrice(swap_data, token_address, pool_address) ==
    IF swap_data.amount0In # << >> /\ swap_data.amount1Out # << >>
    THEN Price(FDivBig(swap_data.amount1Out, swap_data.amount0In))
    ELSE IF swap_data.amount1In # << >> /\ swap_data.amount0Out # << >>
    THEN Price(FDivBig(swap_data.amount1In, swap_data.amount0Out))
    ELSE None

(* UniswapV3Extractor.calculate_token_price.                               *)

TwoTo96 == BigShl(<< 1 >>, 96)

(* the sanity ceiling 1e10 *)
PriceCeiling == FOfBig(Pow10(10))

(* sqrtPriceX96 of a decoded V3 swap: 0, a price of 1, of 2.25 and of      *)
(* 10^12, and 319100132431110825, whose square is not a double             *)
SqrtPriceX96Samples ==
    { << >>, TwoTo96, BigShl(<< 3 >>, 95), BigShl(Pow10(6), 96),
      << 8873, 29356, 12164, 9069 >> }

(* amount0 and amount1 of a decoded V3 swap: both positive, both negative,  *)
(* the two opposite-sign patterns of a real swap, a zero leg, and a ratio  *)
(* above the ceiling                                                       *)
V3AmountPairs ==
    { << SInt(FALSE, AmountSamples[4]), SInt(FALSE, AmountSamples[5]) >>,
      << SInt(TRUE, AmountSamples[4]), SInt(TRUE, AmountSamples[5]) >>,
      << SInt(FALSE, AmountSamples[4]), SInt(TRUE, AmountSamples[5]) >>,
      << SInt(TRUE, AmountSamples[4]), SInt(FALSE, AmountSamples[5]) >>,
      << SInt(FALSE, << >>), SInt(FALSE, AmountSamples[5]) >>,
      << SInt(FALSE, AmountSamples[7]), SInt(FALSE, AmountSamples[5]) >> }

(* pool_info of the V3 get_pool_info *)
V3Pools ==
    PricePools \cup
    { [token0 |-> TKN, token1 |-> USDT, decimals0 |-> 18, decimals1 |-> 6] }

V3Events ==
    { [sqrtPriceX96 |-> q, amount0 |-> a[1], amount1 |-> a[2]] :
        q \in SqrtPriceX96Samples, a \in V3AmountPairs }

(* Python n / 10 ** d for an int n of either sign *)
SDivPow10(n, d) == FQuot(n.neg, n.mag, 0, Pow10(d), 0)

(* the doubles next to p * 2^e, where k is the number of bits p has beyond  *)
(* MantBits: the value itself when it is a double, else the double below   *)
(* and the double above                                                    *)
FNeighbours(p, e, k) ==
    IF BigShl(BigShr(p, k), k) = p
    THEN { [neg |-> FALSE, m |-> BigShr(p, k), e |-> e + k] }
    ELSE { [neg |-> FALSE, m |-> BigShr(p, k), e |-> e + k],
           FRoundCarry(FALSE, BigAdd(BigShr(p, k), << 1 >>), e + k) }

(* x ** 2 for a float x: float.__pow__ calls the C library's pow, which is *)
(* accurate to within one unit in the last place and not always correctly  *)
(* rounded: the results it may give are the doubles next to the exact      *)
(* square                                                                  *)
FSquare(x) ==
    IF x.m = << >> THEN { FZero }
    ELSE FNeighbours(BigMul(x.m, x.m), 2 * x.e,
                     BigBitLen(BigMul(x.m, x.m)) - MantBits)

(* price_ratio = price_ratio * decimal_adjustment, with decimal_adjustment *)
(* (10 ** decimals1) / (10 ** decimals0); square is what ** 2 gave         *)
V3PriceRatio(square, info) ==
    FMul(square, FDivBig(Pow10(info.decimals1), Pow10(info.decimals0)))

(* method 1 up to its validation: price_ratio or 1 / price_ratio, which    *)
(* raises ZeroDivisionError on 0.0; a token outside the pool returns None  *)
V3Primary(tok, info, ratio) ==
    IF tok = info.token0 THEN [st |-> "value", v |-> ratio]
    ELSE IF tok = info.token1
    THEN (IF FIsZero(ratio) THEN [st |-> "raised", v |-> FZero]
          ELSE [st |-> "value", v |-> FDiv(FOne, ratio)])
    ELSE [st |-> "not_in_pool", v |-> FZero]

(* price_eth > 0 and price_eth <= 1e10 *)
V3Reasonable(p) == FGt0(p) /\ FLe(p, PriceCeiling)

V3Validated(p) == IF V3Reasonable(p) THEN Price(p) ELSE None

(* method 2 without its validation *)
V3Fallback_NoCeiling(tok, info, a0, a1) ==
    IF tok = info.token0
    THEN (IF FGt0(a0) /\ FGt0(a1) THEN Price(FDiv(a1, a0))
          ELSE IF FLt0(a0) /\ FLt0(a1) THEN Price(FDiv(FAbs(a1), FAbs(a0)))
          ELSE None)
    ELSE IF tok = info.token1
    THEN (IF FGt0(a1) /\ FGt0(a0) THEN Price(FDiv(a0, a1))
          ELSE IF FLt0(a1) /\ FLt0(a0) THEN Price(FDiv(FAbs(a0), FAbs(a1)))
          ELSE None)
    ELSE None

(* method 2 on the decimal amounts a0 and a1 *)
V3Fallback(tok, info, a0, a1) ==
    IF tok = info.token0
    THEN (IF FGt0(a0) /\ FGt0(a1) THEN V3Validated(FDiv(a1, a0))
          ELSE IF FLt0(a0) /\ FLt0(a1) THEN V3Validated(FDiv(FAbs(a1), FAbs(a0)))
          ELSE None)
    ELSE IF tok = info.token1
    THEN (IF FGt0(a1) /\ FGt0(a0) THEN V3Validated(FDiv(a0, a1))
          ELSE IF FLt0(a1) /\ FLt0(a0) THEN V3Validated(FDiv(FAbs(a0), FAbs(a1)))
          ELSE None)
    ELSE None

(* what follows method 1: its return, or method 2 *)
V3AfterPrimary(primary, tok, info, event) ==
    IF primary.st = "not_in_pool" THEN None
    ELSE IF primary.st = "value" /\ V3Reasonable(primary.v) THEN Price(primary.v)
    ELSE V3Fallback(tok, info, SDivPow10(event.amount0, info.decimals0),
                    SDivPow10(event.amount1, info.decimals1))

(* calculate_token_price of the V3 extractor; ratio is its price_ratio     *)
V3CalculateTokenPrice(event, info, token, ratio) ==
    V3AfterPrimary(V3Primary(Lower(token), info, ratio),
                   Lower(token), info, event)

(* the methods the call evaluated *)
V3MethodsOf(primary) ==
    IF primary.st = "not_in_pool" THEN << "sqrtPriceX96" >>
    ELSE IF primary.st = "value" /\ V3Reasonable(primary.v) THEN << "sqrtPriceX96" >>
    ELSE << "sqrtPriceX96", "amounts" >>

V3MethodsTried(info, token, ratio) ==
    V3MethodsOf(V3Primary(Lower(token), info, ratio))

(* BaseUniswapExtractor._calculate_price_stats (and the same function of   *)
(* PriceExtractor).                                                        *)

(* most price points of one list *)
MaxPoints == 3

(* USD prices of the points: 0.1, 0.3 and 2.5 *)
UsdSamples == { FDivBig(<< 1 >>, << 10 >>), FDivBig(<< 3 >>, << 10 >>), FDivBig(<< 5 >>, << 2 >>) }

(* the lists of price points: the point at position i is of block 100 + i *)
PriceLists ==
    UNION { { [i \in 1..n |-> [timestamp |-> ts[i], block_number |-> 100 + i,
                               token_price_usd |-> usd[i]]] :
                ts \in [1..n -> {1, 2}], usd \in [1..n -> UsdSamples] } :
            n \in 1..MaxPoints }

(* sorted(prices, key=timestamp): a stable sort, p goes after the points   *)
(* that are not later than it                                              *)
RECURSIVE InsertByTimestamp(_, _)
InsertByTimestamp(sorted, p) ==
    IF sorted = << >> THEN << p >>
    ELSE IF sorted[Len(sorted)].timestamp <= p.timestamp THEN Append(sorted, p)
    ELSE Append(InsertByTimestamp(SubSeq(sorted, 1, Len(sorted) - 1), p),
                sorted[Len(sorted)])

RECURSIVE SortedByTimestamp(_, _)
SortedByTimestamp(points, n) ==
    IF n = 0 THEN << >>
    ELSE InsertByTimestamp(SortedByTimestamp(points, n - 1), points[n])

(* the first point of the sorted list taken for the latest *)
CurrentPrice_First(points) == SortedByTimestamp(points, Len(points))[1]

(* current_price = sorted_prices[-1] *)
CurrentPrice(points) == SortedByTimestamp(points, Len(points))[Len(points)]

(* min(prices, key=token_price_usd): the first point of the least key *)
RECURSIVE LowestUsd(_, _)
LowestUsd(points, n) ==
    IF n = 1 THEN points[1]
    ELSE IF FCmp(points[n].token_price_usd, LowestUsd(points, n - 1).token_price_usd) < 0
    THEN points[n]
    ELSE LowestUsd(points, n - 1)

(* max(prices, key=token_price_usd): the first point of the greatest key *)
RECURSIVE HighestUsd(_, _)
HighestUsd(points, n) ==
    IF n = 1 THEN points[1]
    ELSE IF FCmp(points[n].token_price_usd, HighestUsd(points, n - 1).token_price_usd) > 0
    THEN points[n]
    ELSE HighestUsd(points, n - 1)

(* ((current - extreme) / extreme) * 100 *)
PriceChange(current, extreme) ==
    FMul(FDiv(FSub(current, extreme), extreme), FOfBig(<< 100 >>))

NoStats == [st |-> "none"]

PriceStatsOf(lowest, current, highest, n) ==
    [st |-> "stats",
     lowest_price_usd |-> lowest.token_price_usd,
     lowest_price_timestamp |-> lowest.timestamp,
     lowest_price_block |-> lowest.block_number,
     current_price_usd |-> current.token_price_usd,
     current_price_timestamp |-> current.timestamp,
     current_price_block |-> current.block_number,
     highest_price_usd |-> highest.token_price_usd,
     highest_price_timestamp |-> highest.timestamp,
     highest_price_block |-> highest.block_number,
     price_change_from_low |-> PriceChange(current.token_price_usd, lowest.token_price_usd),
     price_change_from_high |-> PriceChange(current.token_price_usd, highest.token_price_usd),
     total_swaps |-> n]

calculate_price_stats(points) ==
    PriceStatsOf(LowestUsd(points, Len(points)), CurrentPrice(points),
                 HighestUsd(points, Len(points)), Len(points))

-----------------------------------------------------------------------------
(* Large-purchase detection over V2 swap logs                              *)
(* (BigBuyAnalyzer.find_big_buys_in_history).                              *)

(* pool metadata as read from the chain, addresses lower-cased *)
AnalyzerPools ==
    { [token0 |-> WETH, token1 |-> TKN, decimals0 |-> 18, decimals1 |-> 18],
      [token0 |-> TKN, token1 |-> WETH, decimals0 |-> 18, decimals1 |-> 18],
      [token0 |-> TKN, token1 |-> USDT, decimals0 |-> 18, decimals1 |-> 6] }

(* threshold_eth: the default 0.1 and 0.0 *)
ThresholdEthSamples == { FDivBig(<< 1 >>, << 10 >>), FZero }

(* 10^17 wei is 0.1 WETH; one wei less is the largest amount below it *)
TenthEthWei == Pow10(17)
BelowTenthEthWei == BigSub(Pow10(17), << 1 >>)

AnalyzerAmounts == { << >>, TenthEthWei }

(* decoded Swap logs: 0.1 WETH-sized amounts swapped one way, the other    *)
(* way, both ways and not at all, an amount paid in with nothing paid out  *)
(* on either side, and a purchase one wei short of 0.1 WETH for either     *)
(* position of WETH                                                        *)
DecodedSwaps ==
    { ev \in [amount0In : AnalyzerAmounts, amount1In : AnalyzerAmounts,
              amount0Out : AnalyzerAmounts, amount1Out : AnalyzerAmounts] :
        \/ ev.amount0In = ev.amount1Out /\ ev.amount1In = ev.amount0Out
        \/ ev.amount0Out = << >> /\ ev.amount1Out = << >>
            /\ ev.amount0In # ev.amount1In }
    \cup
    { [amount0In |-> BelowTenthEthWei, amount1In |-> << >>,
       amount0Out |-> << >>, amount1Out |-> TenthEthWei],
      [amount0In |-> << >>, amount1In |-> BelowTenthEthWei,
       amount0Out |-> TenthEthWei, amount1Out |-> << >>] }

NoEvent ==
    [amount0In |-> << >>, amount1In |-> << >>,
     amount0Out |-> << >>, amount1Out |-> << >>]

(* the body of the loop over swap_events for one decoded event *)
find_big_buys_event(buys, ev, pool, threshold, tx_hash) ==
    LET weth_address == Lower(WETH_CHECKSUM)
        amount0_in == FDivBig(ev.amount0In, Pow10(pool.decimals0))
        amount1_in == FDivBig(ev.amount1In, Pow10(pool.decimals1))
        amount0_out == FDivBig(ev.amount0Out, Pow10(pool.decimals0))
        amount1_out == FDivBig(ev.amount1Out, Pow10(pool.decimals1))
        eth_amount ==
            IF pool.token0 = weth_address
            THEN (IF FGt0(amount0_in) /\ FGt0(amount1_out) THEN amount0_in ELSE FZero)
            ELSE (IF FGt0(amount1_in) /\ FGt0(amount0_out) THEN amount1_in ELSE FZero)
    IN  IF FGe(eth_amount, threshold)
        THEN Append(buys,
               [tx_hash |-> tx_hash,
                eth_amount |-> eth_amount,
                token_amount_in |->
                    IF pool.token0 = weth_address THEN amount0_in ELSE amount1_in,
                token_amount_out |->
                    IF pool.token0 = weth_address THEN amount1_out ELSE amount0_out])
        ELSE buys

(* the checks before the loop: WETH must be in the pool and the other      *)
(* token must be token_address                                             *)
find_big_buys_enters_loop(pool, token) ==
    LET weth_address == Lower(WETH_CHECKSUM)
        target_token == IF pool.token0 = weth_address THEN pool.token1
                        ELSE pool.token0
    IN  /\ pool.token0 = weth_address \/ pool.token1 = weth_address
        /\ target_token = Lower(token)

-----------------------------------------------------------------------------
(* The reference-price oracles (EnhancedUSDTOracle, USDTOracle).            *)

(* Optional[int] *)
NoneInt == [st |-> "None", n |-> << >>]
SomeInt(n) == [st |-> "int", n |-> n]
Truthy(x) == x.st = "int" /\ x.n # << >>

cache_block_size == 300

(* (block_number // cache_block_size) * cache_block_size *)
BlockRange(block_number) == (block_number \div cache_block_size) * cache_block_size

(* dict assignment d[k] = v *)
DictPut(d, k, v) == [x \in DOMAIN d \cup {k} |-> IF x = k THEN v ELSE d[x]]

EmptyDict == [x \in {} |-> << >>]

(* the web3_client an oracle is constructed with: None, a client with only *)
(* the w3 attribute, or the repository's Web3Client (w3 and                *)
(* get_eth_price_usd)                                                      *)
Web3Clients == {"none", "w3_only", "full"}

(* sqrtPriceX96 of the WETH/USDC reference pool at about 3500 USDC per WETH *)
SqrtPriceSample == << 7201, 10642, 31303, 8482, 8138, 14616, 453, 33 >>

(* slot0().call(block_identifier=...): raises, or returns sqrtPriceX96 *)
Slot0Outcomes ==
    { [st |-> "error", sqrtPriceX96 |-> << >>],
      [st |-> "ok", sqrtPriceX96 |-> << >>],
      [st |-> "ok", sqrtPriceX96 |-> SqrtPriceSample] }

(* Web3Client.get_eth_price_usd(): None when the Chainlink read raises (the *)
(* method catches it and never raises itself), or answer / 10 ** 8 for the *)
(* Chainlink answers 1 and 2 * 10^12                                       *)
LiveOutcomes ==
    { [st |-> "None", v |-> FZero],
      [st |-> "value", v |-> FDivBig(<< 1 >>, Pow10(8))],
      [st |-> "value", v |-> FDivBig(BigMulSmall(Pow10(12), 2, 0), Pow10(8))] }

(* int(price * 1_000_000), tabulated for the prices the model uses *)
ScaledPriceOf(price) == FTrunc(FMul(price, FOfBig(Pow10(6))))

(* the price arithmetic of _get_v3_price_from_slot0 for a non-zero         *)
(* sqrtPriceX96: Optional[float]; of (x) ** 2 only the sign is used, which *)
(* is the same for every result ** may give                                *)
UsdcPerWeth(sqrt_price_x96) ==
    LET x == FDivBig(sqrt_price_x96, BigShl(<< 1 >>, 96))
        weth_price_usdc(square) == FAbs(FMul(square, FDivBig(<< 1 >>, Pow10(12))))
        price_raw == FDivBig(BigMul(sqrt_price_x96, sqrt_price_x96),
                             BigShl(<< 1 >>, 192))
        weth_per_usdc == FDiv(price_raw, FOfBig(Pow10(12)))
    IN  IF (\A square \in FSquare(x) : FGt0(weth_price_usdc(square))) /\ FGt0(weth_per_usdc)
        THEN Price(FDiv(FOne, weth_per_usdc))
        ELSE None

UsdcPerWethTable == [q \in {SqrtPriceSample} |-> UsdcPerWeth(q)]

(* the literal 3500.0 *)
FallbackEthPrice == FOfBig(Big(3500))

ScaledPriceTable ==
    [x \in { l.v : l \in LiveOutcomes }
           \cup { UsdcPerWethTable[q].v : q \in DOMAIN UsdcPerWethTable }
           \cup { FallbackEthPrice }
       |-> ScaledPriceOf(x)]

ScaledPrice(price) == ScaledPriceTable[price]

(* int(3500.0 * 1_000_000) *)
fallback_price == ScaledPrice(FallbackEthPrice)

(* EnhancedUSDTOracle._get_v3_price_from_slot0: the price, and whether the  *)
(* slot0 read was issued                                                   *)
Enhanced_get_v3_price_from_slot0(client, slot0) ==
    IF client = "none" THEN [price |-> None, read |-> FALSE]
    ELSE IF slot0.st = "error" THEN [price |-> None, read |-> TRUE]
    ELSE IF slot0.sqrtPriceX96 = << >> THEN [price |-> None, read |-> TRUE]
    ELSE [price |-> UsdcPerWethTable[slot0.sqrtPriceX96], read |-> TRUE]

(* the tier that answers a cache miss: the float price it yields and the   *)
(* tiers consulted in order                                                *)
Enhanced_price_tiers(eth_usdc_price, client, live) ==
    IF eth_usdc_price.st = "price" /\ FGt0(eth_usdc_price.v)
    THEN [price |-> eth_usdc_price.v, tiers |-> << "historical" >>]
    ELSE IF client = "full" /\ live.st = "value" /\ FGt0(live.v)
    THEN [price |-> live.v, tiers |-> << "historical", "live" >>]
    ELSE [price |-> FallbackEthPrice,
          tiers |-> IF client = "full" THEN << "historical", "live", "fixed" >>
                    ELSE << "historical", "fixed" >>]

(* self.eth_usdt_price_cache[block_range] = scaled_price; return scaled_price *)
Enhanced_cache_store(cache, block_range, scaled_price, tiers, read) ==
    [cache |-> DictPut(cache, block_range, scaled_price),
     result |-> SomeInt(scaled_price), tiers |-> tiers, read |-> read]

(* scaled_price = int(price * 1_000_000) for the price of the answering tier *)
Enhanced_cache_fill(cache, block_range, t, read) ==
    Enhanced_cache_store(cache, block_range, ScaledPrice(t.price), t.tiers, read)

(* a cache miss: hist is the outcome of _get_v3_price_from_slot0 *)
Enhanced_cache_miss(cache, client, block_range, hist, live) ==
    Enhanced_cache_fill(cache, block_range,
                        Enhanced_price_tiers(hist.price, client, live), hist.read)

(* the body of get_eth_usdt_price_scaled for the cache key block_range *)
Enhanced_price_for_key(cache, client, block_range, slot0, live) ==
    IF block_range \in DOMAIN cache
    THEN [cache |-> cache, result |-> SomeInt(cache[block_range]),
          tiers |-> << >>, read |-> FALSE]
    ELSE Enhanced_cache_miss(cache, client, block_range,
                             Enhanced_get_v3_price_from_slot0(client, slot0), live)

Enhanced_get_eth_usdt_price_scaled_KeyByBlock(cache, client, block_number, slot0, live) ==
    Enhanced_price_for_key(cache, client, block_number, slot0, live)

(* EnhancedUSDTOracle.get_eth_usdt_price_scaled: the cache afterwards, the  *)
(* returned value, the tiers consulted in order, and the slot0 read        *)
Enhanced_get_eth_usdt_price_scaled(cache, client, block_number, slot0, live) ==
    Enhanced_price_for_key(cache, client, BlockRange(block_number), slot0, live)

(* the log record Web3Client.get_eth_price_usd emits itself: debug with the *)
(* price it read, error when the Chainlink read raised                     *)
Web3Client_get_eth_price_usd_log(live) ==
    IF live.st = "value" THEN << "debug" >> ELSE << "error" >>

(* the log records one cache miss of get_eth_usdt_price_scaled emits, by   *)
(* level and in order: the failed slot0 read, the client's own record of   *)
(* the live read, then the answering tier                                  *)
Enhanced_tier_log(client, live, tiers) ==
    IF tiers = << "historical" >> THEN << "debug" >>
    ELSE IF tiers[Len(tiers)] = "live"
    THEN Web3Client_get_eth_price_usd_log(live) \o << "warning" >>
    ELSE IF client = "full"
    THEN Web3Client_get_eth_price_usd_log(live) \o << "error" >>
    ELSE << "error" >>

Enhanced_log_records(client, slot0, live, tiers) ==
    IF tiers = << >> THEN << >>
    ELSE IF client # "none" /\ slot0.st = "error"
    THEN << "warning" >> \o Enhanced_tier_log(client, live, tiers)
    ELSE Enhanced_tier_log(client, live, tiers)

(* the log records one cache miss of USDTOracle emits: the oracle logs      *)
(* only a get_eth_price_usd() that raises (the client without the method), *)
(* Web3Client logs its own read, and without a client nothing is logged    *)
USDTOracle_log_records(client, live, tiers) ==
    IF tiers = << >> THEN << >>
    ELSE IF client = "w3_only" THEN << "warning" >>
    ELSE IF client = "full" THEN Web3Client_get_eth_price_usd_log(live)
    ELSE << >>

(* the price USDTOracle._fetch_eth_usdt_price_onchain settles on *)
USDTOracle_price_tiers(client, live) ==
    IF client = "full" /\ live.st = "value" /\ FGt0(live.v)
    THEN [price |-> live.v, tiers |-> << "live" >>]
    ELSE [price |-> FallbackEthPrice,
          tiers |-> IF client = "none" THEN << "fixed" >>
                    ELSE << "live", "fixed" >>]

USDTOracle_scaled(t) == [result |-> ScaledPrice(t.price), tiers |-> t.tiers]

(* USDTOracle._fetch_eth_usdt_price_onchain *)
USDTOracle_fetch_eth_usdt_price_onchain(client, live) ==
    USDTOracle_scaled(USDTOracle_price_tiers(client, live))

(* self.price_cache[cache_key] = price; return price *)
USDTOracle_cache_store(cache, cache_key, fetched) ==
    [cache |-> DictPut(cache, cache_key, fetched.result),
     result |-> SomeInt(fetched.result), tiers |-> fetched.tiers, read |-> FALSE]

USDTOracle_price_for_key(cache, client, cache_key, live) ==
    IF cache_key \in DOMAIN cache
    THEN [cache |-> cache, result |-> SomeInt(cache[cache_key]),
          tiers |-> << >>, read |-> FALSE]
    ELSE USDTOracle_cache_store(cache, cache_key,
                                USDTOracle_fetch_eth_usdt_price_onchain(client, live))

(* USDTOracle._get_eth_usdt_price_scaled *)
USDTOracle_get_eth_usdt_price_scaled(cache, client, block, live) ==
    USDTOracle_price_for_key(cache, client, BlockRange(block), live)

-----------------------------------------------------------------------------
(* Large-purchase classification of single swaps: BigBuyStorage,            *)
(* EnhancedUSDTOracle.get_usdt_value_for_swap and the JSONL writer.         *)

POOL_WETH_TKN == "0xa43fe16908251ee70ef74718545e4fe6c5ccec9f"
POOL_TKN_WETH == "0x11950d141ecb863f01007add7d1a342041227b58"
POOL_USDT_WETH == "0x4e68ccd3e89f51c3074ca5072bbac773960dfa36"
POOL_TKN_WETH_V2 == "0xa43fe16908251ee70ef74718545e4fe6c5ccec9e"

(* pool_info as classification receives it *)
POOL_WETH_USDT_V2 == "0x0d4a11d5eeaac28ec3f61d100daf4d40471f1852"

ClassifyPools ==
    { [pool_address |-> POOL_WETH_TKN, version |-> "V3",
       token0 |-> WETH_CHECKSUM, token1 |-> TKN_CHECKSUM,
       token0_decimals |-> 18, token1_decimals |-> 18],
      [pool_address |-> POOL_TKN_WETH, version |-> "V3",
       token0 |-> TKN, token1 |-> WETH,
       token0_decimals |-> 18, token1_decimals |-> 18],
      [pool_address |-> POOL_USDT_WETH, version |-> "V3",
       token0 |-> USDT, token1 |-> WETH,
       token0_decimals |-> 6, token1_decimals |-> 18],
      [pool_address |-> POOL_TKN_WETH_V2, version |-> "V2",
       token0 |-> TKN, token1 |-> WETH,
       token0_decimals |-> 18, token1_decimals |-> 18],
      [pool_address |-> POOL_WETH_USDT_V2, version |-> "V2",
       token0 |-> WETH_CHECKSUM, token1 |-> USDT,
       token0_decimals |-> 18, token1_decimals |-> 6] }

(* str.lower() and str.upper() of a version string *)
VersionLower(v) == IF v = "V2" THEN "v2" ELSE IF v = "V3" THEN "v3" ELSE v
VersionUpper(v) == IF v = "v2" THEN "V2" ELSE IF v = "v3" THEN "V3" ELSE v

(* WETH amounts: 0.03 WETH, one wei below 0.1 WETH, 0.1 WETH *)
WethSamples == { BigMulSmall(Pow10(16), 3, 0), BelowTenthEthWei, TenthEthWei }

(* the amount of the other token: 100 USDT, or 10 TKN *)
OtherAmount(pool) ==
    IF USDT \in { Lower(pool.token0), Lower(pool.token1) } THEN Pow10(8)
    ELSE Pow10(19)

WethIsToken0(pool) == Lower(pool.token0) = WETH

(* a V3 Swap log: int256 amounts, positive for the token the pool receives *)
V3Swap(pool, weth, other) ==
    [kind |-> "v3",
     amount0 |-> IF WethIsToken0(pool) THEN weth ELSE other,
     amount1 |-> IF WethIsToken0(pool) THEN other ELSE weth,
     amount0In |-> << >>, amount1In |-> << >>,
     amount0Out |-> << >>, amount1Out |-> << >>]

(* a V2 Swap log: uint amounts in and out per token *)
V2Swap(pool, weth_in, weth_out, other_in, other_out) ==
    [kind |-> "v2",
     amount0 |-> SInt(FALSE, << >>), amount1 |-> SInt(FALSE, << >>),
     amount0In |-> IF WethIsToken0(pool) THEN weth_in ELSE other_in,
     amount1In |-> IF WethIsToken0(pool) THEN other_in ELSE weth_in,
     amount0Out |-> IF WethIsToken0(pool) THEN weth_out ELSE other_out,
     amount1Out |-> IF WethIsToken0(pool) THEN other_out ELSE weth_out]

(* the swaps of a pool: WETH paid in for the other token, and the reverse *)
ClassifySwaps(pool) ==
    IF pool.version = "V3"
    THEN { V3Swap(pool, SInt(FALSE, w), SInt(TRUE, OtherAmount(pool))) :
             w \in WethSamples }
         \cup
         { V3Swap(pool, SInt(TRUE, w), SInt(FALSE, OtherAmount(pool))) :
             w \in WethSamples }
    ELSE { V2Swap(pool, w, << >>, << >>, OtherAmount(pool)) : w \in WethSamples }
         \cup
         { V2Swap(pool, << >>, w, OtherAmount(pool), << >>) : w \in WethSamples }

NoSwap ==
    [kind |-> "none", amount0 |-> SInt(FALSE, << >>), amount1 |-> SInt(FALSE, << >>),
     amount0In |-> << >>, amount1In |-> << >>,
     amount0Out |-> << >>, amount1Out |-> << >>]

(* int(a) - int(b) for a, b >= 0 *)
SSub(a, b) ==
    IF BigGe(a, b) THEN SInt(FALSE, BigSub(a, b)) ELSE SInt(TRUE, BigSub(b, a))

(* swap.get('amount0', swap.get('amount0In', 0)) *)
SwapAmount0(swap) ==
    IF swap.kind = "v3" THEN swap.amount0 ELSE SInt(FALSE, swap.amount0In)
SwapAmount1(swap) ==
    IF swap.kind = "v3" THEN swap.amount1 ELSE SInt(FALSE, swap.amount1In)

(* the a0 / a1 of a JSONL row: for V2 the net amount Out - In when either  *)
(* is non-zero, otherwise the amount as found in the event                 *)
SwapJSONLWriter_amount(version, amount, amount_in, amount_out) ==
    IF VersionLower(version) = "v2" /\ (amount_out # << >> \/ amount_in # << >>)
    THEN SSub(amount_out, amount_in)
    ELSE amount

SwapJSONLWriter_a0(swap, version) ==
    SwapJSONLWriter_amount(version, SwapAmount0(swap), swap.amount0In, swap.amount0Out)
SwapJSONLWriter_a1(swap, version) ==
    SwapJSONLWriter_amount(version, SwapAmount1(swap), swap.amount1In, swap.amount1Out)

(* USDTOracle.is_big_buy_usdt with the default threshold_usdt = 100_000_000 *)
threshold_usdt == Pow10(8)
USDTOracle_is_big_buy_usdt(usdt_value_raw) ==
    usdt_value_raw.st = "int" /\ BigGe(usdt_value_raw.n, threshold_usdt)

(* (abs(a) * eth_usdt_scaled) // (10 ** 18) if eth_usdt_scaled is truthy;   *)
(* priced is the outcome of the price lookup                               *)
UsdtValueOf(amount, eth_usdt_scaled) ==
    BigFloorDiv(BigMul(amount, eth_usdt_scaled), Pow10(18))

(* the same, tabulated for the amounts and prices the model uses *)
ScaledPrices == { ScaledPriceTable[x] : x \in DOMAIN ScaledPriceTable }
UsdtValueTable ==
    [a \in WethSamples, p \in ScaledPrices |-> UsdtValueOf(a, p)]
UsdtValue(amount, eth_usdt_scaled) ==
    IF << amount, eth_usdt_scaled >> \in DOMAIN UsdtValueTable
    THEN UsdtValueTable[amount, eth_usdt_scaled]
    ELSE UsdtValueOf(amount, eth_usdt_scaled)

WethLegValue(leg, priced) ==
    [cache |-> priced.cache,
     value |-> IF Truthy(priced.result)
               THEN SomeInt(UsdtValue(SAbs(leg), priced.result.n))
               ELSE NoneInt,
     read |-> priced.read]

(* get_usdt_value_raw with the WETH branch tested before the USDT branch *)
USDTOracle_get_usdt_value_raw_WethFirst(cache, client, a0, a1, block, pool, live) ==
    IF Lower(pool.token0) = WETH \/ Lower(pool.token1) = WETH
    THEN WethLegValue(IF Lower(pool.token0) = WETH THEN a0 ELSE a1,
                      USDTOracle_get_eth_usdt_price_scaled(cache, client, block, live))
    ELSE IF Lower(pool.token0) = USDT
    THEN [cache |-> cache, value |-> SomeInt(SAbs(a0)), read |-> FALSE]
    ELSE IF Lower(pool.token1) = USDT
    THEN [cache |-> cache, value |-> SomeInt(SAbs(a1)), read |-> FALSE]
    ELSE [cache |-> cache, value |-> NoneInt, read |-> FALSE]

(* USDTOracle.get_usdt_value_raw: the cache afterwards and the value *)
USDTOracle_get_usdt_value_raw(cache, client, a0, a1, block, pool, live) ==
    IF Lower(pool.token0) = USDT
    THEN [cache |-> cache, value |-> SomeInt(SAbs(a0)), read |-> FALSE]
    ELSE IF Lower(pool.token1) = USDT
    THEN [cache |-> cache, value |-> SomeInt(SAbs(a1)), read |-> FALSE]
    ELSE IF Lower(pool.token0) = WETH \/ Lower(pool.token1) = WETH
    THEN WethLegValue(IF Lower(pool.token0) = WETH THEN a0 ELSE a1,
                      USDTOracle_get_eth_usdt_price_scaled(cache, client, block, live))
    ELSE [cache |-> cache, value |-> NoneInt, read |-> FALSE]

(* BigBuyStorage.eth_threshold = 0.1 *)
eth_threshold == FDivBig(<< 1 >>, << 10 >>)

(* abs(amount) / (10 ** decimals), tabulated for the amounts the model uses *)
EthAmountOf(amount, decimals) == FDivBig(amount, Pow10(decimals))
EthAmountTable == [a \in WethSamples |-> EthAmountOf(a, 18)]
EthAmount(amount, decimals) ==
    IF decimals = 18 /\ amount \in DOMAIN EthAmountTable
    THEN EthAmountTable[amount]
    ELSE EthAmountOf(amount, decimals)

(* is_buy and eth_amount of BigBuyStorage._analyze_swap_for_big_buy *)
BigBuyStorage_direction(amount0, amount1, pool) ==
    IF Lower(pool.token0) = WETH
    THEN (IF SIsNeg(amount0)
          THEN [is_buy |-> TRUE,
                eth_amount |-> EthAmount(SAbs(amount0), pool.token0_decimals)]
          ELSE [is_buy |-> FALSE, eth_amount |-> FZero])
    ELSE IF Lower(pool.token1) = WETH /\ SIsNeg(amount1)
    THEN [is_buy |-> TRUE,
          eth_amount |-> EthAmount(SAbs(amount1), pool.token1_decimals)]
    ELSE [is_buy |-> FALSE, eth_amount |-> FZero]

(* x or 0 *)
OrZero(x) == IF Truthy(x) THEN x ELSE SomeInt(<< >>)

(* the flags and the decision to return a record *)
BigBuyStorage_decide(cache, is_buy, is_big_buy_eth, oracle_value, is_big_buy_usdt) ==
    [cache |-> cache, is_buy |-> is_buy, is_big_buy_eth |-> is_big_buy_eth,
     oracle_value |-> oracle_value, is_big_buy_usdt |-> is_big_buy_usdt,
     reported |-> is_buy /\ (is_big_buy_eth \/ is_big_buy_usdt)]

BigBuyStorage_flags(d, has_oracle, o) ==
    BigBuyStorage_decide(o.cache, d.is_buy, FGe(d.eth_amount, eth_threshold),
                         o.value,
                         has_oracle /\ USDTOracle_is_big_buy_usdt(OrZero(o.value)))

(* the key a swap dictionary keeps its block under: 'blockNumber' (a log   *)
(* or decoded event), 'block_number' (a price point) or 'b' (a row of the  *)
(* JSONL writer)                                                           *)
SwapBlockKeys == {"blockNumber", "block_number", "b"}

(* swap.get('blockNumber', swap.get('block_number', 0)) *)
BigBuyStorage_block_number(block_key, block) ==
    IF block_key \in {"blockNumber", "block_number"} THEN block ELSE 0

(* BigBuyStorage._analyze_swap_for_big_buy with usdt_oracle a USDTOracle or *)
(* None; block is the block_number it read from the swap                   *)
BigBuyStorage_analyze_swap_for_big_buy(cache, client, has_oracle, amount0, amount1, block, pool, live) ==
    BigBuyStorage_flags(
        BigBuyStorage_direction(amount0, amount1, pool),
        has_oracle,
        IF has_oracle
        THEN USDTOracle_get_usdt_value_raw(cache, client, amount0, amount1,
                                           block, pool, live)
        ELSE [cache |-> cache, value |-> NoneInt, read |-> FALSE])

(* int(0.1 * 10**18) and 1_000_000_000 *)
BIG_BUY_ETH_THRESHOLD == FTrunc(FMul(FDivBig(<< 1 >>, << 10 >>), FOfBig(Pow10(18))))
BIG_BUY_USDT_THRESHOLD == Pow10(9)

NoMetadata ==
    [st |-> "empty", t0 |-> "", t1 |-> "", d0 |-> 0, d1 |-> 0, version |-> ""]

(* EnhancedUSDTOracle.get_pool_metadata; fetch_ok tells whether the contract *)
(* calls succeed                                                           *)
Enhanced_get_pool_metadata(meta_cache, client, pool, version, fetch_ok) ==
    IF Lower(pool.pool_address) \in DOMAIN meta_cache
    THEN [cache |-> meta_cache, metadata |-> meta_cache[Lower(pool.pool_address)]]
    ELSE IF client = "none" \/ ~fetch_ok
    THEN [cache |-> meta_cache, metadata |-> NoMetadata]
    ELSE [cache |-> DictPut(meta_cache, Lower(pool.pool_address),
                            [st |-> "meta",
                             t0 |-> Lower(pool.token0), t1 |-> Lower(pool.token1),
                             d0 |-> pool.token0_decimals, d1 |-> pool.token1_decimals,
                             version |-> VersionUpper(version)]),
          metadata |-> [st |-> "meta",
                        t0 |-> Lower(pool.token0), t1 |-> Lower(pool.token1),
                        d0 |-> pool.token0_decimals, d1 |-> pool.token1_decimals,
                        version |-> VersionUpper(version)]]

(* usdt_value of get_usdt_value_for_swap *)
Enhanced_usdt_value(metadata, cache, client, a0, a1, block_number, slot0, live) ==
    IF metadata.t0 = USDT
    THEN [cache |-> cache, value |-> SomeInt(SAbs(a0)), read |-> FALSE]
    ELSE IF metadata.t1 = USDT
    THEN [cache |-> cache, value |-> SomeInt(SAbs(a1)), read |-> FALSE]
    ELSE IF metadata.t0 = WETH \/ metadata.t1 = WETH
    THEN WethLegValue(IF metadata.t0 = WETH THEN a0 ELSE a1,
                      Enhanced_get_eth_usdt_price_scaled(cache, client, block_number,
                                                         slot0, live))
    ELSE [cache |-> cache, value |-> NoneInt, read |-> FALSE]

(* is_big_buy of get_usdt_value_for_swap: the value test, then the if and  *)
(* its elif on the WETH leg; the elif is tried whenever the if's test is   *)
(* false, token0 being WETH or not                                         *)
Enhanced_is_big_buy(metadata, a0, a1, usdt_value) ==
    \/ Truthy(usdt_value) /\ BigGe(usdt_value.n, BIG_BUY_USDT_THRESHOLD)
    \/ metadata.t0 = WETH /\ BigGe(SAbs(a0), BIG_BUY_ETH_THRESHOLD)
    \/ metadata.t1 = WETH /\ BigGe(SAbs(a1), BIG_BUY_ETH_THRESHOLD)

Enhanced_value_and_flag(m, a0, a1, o) ==
    [meta_cache |-> m.cache, cache |-> o.cache, has_metadata |-> TRUE,
     usdt_value |-> o.value,
     is_big_buy |-> Enhanced_is_big_buy(m.metadata, a0, a1, o.value),
     read |-> o.read]

Enhanced_value_with_metadata(m, cache, client, a0, a1, block_number, slot0, live) ==
    IF m.metadata.st = "empty"
    THEN [meta_cache |-> m.cache, cache |-> cache, has_metadata |-> FALSE,
          usdt_value |-> NoneInt, is_big_buy |-> FALSE, read |-> FALSE]
    ELSE Enhanced_value_and_flag(m, a0, a1,
             Enhanced_usdt_value(m.metadata, cache, client, a0, a1, block_number,
                                 slot0, live))

(* EnhancedUSDTOracle.get_usdt_value_for_swap *)
Enhanced_get_usdt_value_for_swap(meta_cache, cache, client, a0, a1, block_number, pool, version, fetch_ok, slot0, live) ==
    Enhanced_value_with_metadata(
        Enhanced_get_pool_metadata(meta_cache, client, pool, version, fetch_ok),
        cache, client, a0, a1, block_number, slot0, live)

(* "usdt": str(usdt_value_raw) if usdt_value_raw is not None else "0" *)
SwapJSONLWriter_usdt(usdt_value_raw) ==
    IF usdt_value_raw.st = "None" THEN SomeInt(<< >>) ELSE usdt_value_raw

SwapJSONLWriter_flag(a0, a1, o) ==
    [cache |-> o.cache, a0 |-> a0, a1 |-> a1,
     usdt_value_raw |-> o.value, usdt |-> SwapJSONLWriter_usdt(o.value),
     bb |-> IF USDTOracle_is_big_buy_usdt(o.value) THEN 1 ELSE 0]

SwapJSONLWriter_row(cache, client, a0, a1, block, has_pool_info, pool, live) ==
    IF has_pool_info
    THEN SwapJSONLWriter_flag(a0, a1,
             USDTOracle_get_usdt_value_raw(cache, client, a0, a1, block, pool, live))
    ELSE [cache |-> cache, a0 |-> a0, a1 |-> a1,
          usdt_value_raw |-> NoneInt, usdt |-> SwapJSONLWriter_usdt(NoneInt),
          bb |-> 0]

(* SwapJSONLWriter._convert_to_minimal_format: a0, a1, usdt and bb of the   *)
(* row, and the oracle's cache afterwards                                  *)
SwapJSONLWriter_convert_to_minimal_format(cache, client, swap, block, version, has_pool_info, pool, live) ==
    SwapJSONLWriter_row(cache, client,
                        SwapJSONLWriter_a0(swap, version),
                        SwapJSONLWriter_a1(swap, version),
                        block, has_pool_info, pool, live)

-----------------------------------------------------------------------------
VARIABLES
    calc,            \* which calculator this run exercises
    decoded_event,   \* the decoded swap being priced
    pool_info,       \* the pool's metadata
    price_eth,       \* token_address -> result of calculate_token_price
    an_pc,           \* find_big_buys_in_history: "idle", "start", "loop", "done"
    an_pool,         \* token0/token1/decimals read from the pair contract
    token_address,   \* the token_address argument
    threshold_eth,   \* the threshold_eth argument
    an_events,       \* the swap_events argument
    events_seen,     \* how many swap_events the loop has consumed
    last_event,      \* the event consumed last, and whether it decoded
    big_buys,        \* the list being built
    oracle,          \* the oracle class of this run, or "idle"
    web3_client,     \* the client the oracle was constructed with
    eth_usdt_price_cache,  \* EnhancedUSDTOracle: block_range -> scaled price
    price_cache,     \* USDTOracle: cache_key -> scaled price
    last_call,       \* the latest price request: block, tiers, result
    slot0_reads,     \* bucket -> historical slot0 reads issued so far
    first_request,   \* bucket -> the block first requested in it
    classifier,      \* the classifying class of this run, or "idle"
    cl_pool,         \* the pool whose swaps are classified
    cl_swap,         \* the swap classified last: event, block, pool_info given
    cl_result,       \* what the classifier returned for it
    pool_metadata_cache,  \* EnhancedUSDTOracle: pool_key -> metadata
    threads,  \* caller -> where it stands in its oracle call, and its locals
    ex_pc,  \* analysis run: idle, start, fetch, loop, extracted, analyzed, reported
    ex_version,  \* the extractor of the run: UniswapV2Extractor or UniswapV3Extractor
    use_node,  \* the extractor reads logs from the archive node, else from Etherscan
    ex_range,  \* start_block and end_block of the run
    current_block,  \* EtherscanClient.get_swap_events: first block of the next batch
    requests,  \* outcome of every log request issued so far
    swap_events,  \* the logs fetched (all_logs while fetching)
    ex_index,  \* how many swap_events the extraction loop has consumed
    prices,  \* the price points appended so far
    ex_pool_info,  \* outcome of get_pool_info in extract_prices
    pool_info_reads,  \* how many times the pool's contract was read for its metadata
    ex_result,  \* what analyze_token_complete returned
    ex_report,  \* what main reported for the run
    prev_run,  \* the previous analysis of the process, when it priced no swap
    ch_pc,  \* position in EtherscanClient.get_swap_events
    ch_from,  \* its from_block
    ch_to,  \* its to_block
    ch_batch,  \* its batch_size
    ch_current,  \* its current_block
    ch_requests,  \* the get_logs requests made so far, with what each answered
    all_logs,  \* its all_logs
    methods_tried,  \* the methods of the V3 calculate_token_price that were evaluated, per token
    price_ratio,    \* price_ratio of the V3 calculate_token_price after its decimal adjustment
    stat_prices,  \* the price points given to _calculate_price_stats
    stats,  \* what it returned
    bt_pc,  \* position in process_tokens_from_csv
    bt_total,  \* number of rows of the CSV file
    bt_seen,  \* what the analysis of each row processed so far came to
    bt_results,  \* its results
    bt_saved,  \* what it handed to save_prices_to_object_csv
    nz_pc,  \* position in normalize_swaps.process_file
    nz_lines,  \* the lines of the input file read so far
    nz_stats,  \* its stats
    nz_swaps  \* the normalized swaps collected

priceVars == << calc, decoded_event, pool_info, price_eth >>
analyzerVars == << an_pc, an_pool, token_address, threshold_eth, an_events,
                   events_seen, last_event, big_buys >>
oracleVars == << oracle, web3_client, eth_usdt_price_cache, price_cache,
                 last_call, slot0_reads, first_request >>
classifyVars == << classifier, cl_pool, cl_swap, cl_result, pool_metadata_cache >>
concVars == << threads >>
extractVars == << ex_pc, ex_version, use_node, ex_range, current_block, requests, swap_events, ex_index, prices, ex_pool_info, pool_info_reads, ex_result, ex_report, prev_run >>
chunkVars == << ch_pc, ch_from, ch_to, ch_batch, ch_current, ch_requests, all_logs >>
v3Vars == << methods_tried, price_ratio >>
statsVars == << stat_prices, stats >>
batchVars == << bt_pc, bt_total, bt_seen, bt_results, bt_saved >>
normVars == << nz_pc, nz_lines, nz_stats, nz_swaps >>
vars == << priceVars, analyzerVars, oracleVars, classifyVars, concVars, extractVars, chunkVars, v3Vars, statsVars, batchVars, normVars >>

(* the parts of the program a run does not exercise stay as constructed *)
PriceIdle ==
    /\ calc = "idle"
    /\ decoded_event = NoEvent
    /\ pool_info = CHOOSE p \in PricePools : p.token0 = TKN
    /\ price_eth = [t \in TargetTokens |-> Unset]

AnalyzerIdle ==
    /\ an_pc = "idle"
    /\ an_pool = CHOOSE p \in AnalyzerPools : p.token0 = WETH
    /\ token_address = TKN_CHECKSUM
    /\ threshold_eth = FZero
    /\ an_events = << >>
    /\ events_seen = 0
    /\ last_event = [decoded |-> FALSE, ev |-> NoEvent, raised |-> FALSE]
    /\ big_buys = << >>

NoCall ==
    [block |-> 0, tiers |-> << >>, result |-> NoneInt, hit |-> FALSE,
     hist_ok |-> FALSE, live_ok |-> FALSE, logs |-> << >>]

OracleFresh ==
    /\ eth_usdt_price_cache = EmptyDict
    /\ price_cache = EmptyDict
    /\ last_call = NoCall
    /\ slot0_reads = EmptyDict
    /\ first_request = EmptyDict

OracleIdle ==
    /\ oracle = "idle"
    /\ web3_client = "none"
    /\ OracleFresh

NoResult == [st |-> "idle"]

ClassifyFresh ==
    /\ cl_swap = [ev |-> NoSwap, block |-> 0, has_pool_info |-> FALSE]
    /\ cl_result = NoResult
    /\ pool_metadata_cache = EmptyDict

ClassifyIdle ==
    /\ classifier = "idle"
    /\ cl_pool = CHOOSE p \in ClassifyPools : p.pool_address = POOL_WETH_TKN
    /\ ClassifyFresh

(* ---------------------------------------------------------------------- *)
(* One analysis run: get_pool_info, the log transport, the extraction loop, *)
(* analyze_token_complete and the caller's report.                         *)
(* ---------------------------------------------------------------------- *)

(* EtherscanClient.get_swap_events(..., batch_size=1000, ...) *)
batch_size == 1000

(* a block number as Etherscan returns it: hexadecimal digits *)
RECURSIVE HexOf(_)
HexOf(n) == IF n < 16 THEN << n >> ELSE HexOf(n \div 16) \o << n % 16 >>

(* int(s, 16) *)
RECURSIVE IntBase16(_)
IntBase16(s) ==
    IF s = << >> THEN 0
    ELSE IntBase16(SubSeq(s, 1, Len(s) - 1)) * 16 + s[Len(s)]

(* the runs analysed: one batch, and two batches with a shorter last one *)
ExtractRanges ==
    { [start_block |-> 1000, end_block |-> 1999],
      [start_block |-> 500, end_block |-> 1999] }

(* most logs one run's transport returns in total *)
MaxLogs == 2

(* what a log carries: data that decodes to a purchase, data that decodes   *)
(* to all-zero amounts, data too short to decode, and a purchase whose     *)
(* timestamp cannot be had (no 'timeStamp' key, or get_block raises)       *)
ExtractLogKinds ==
    { [data |-> "buy", timeStamp |-> TRUE],
      [data |-> "zero", timeStamp |-> TRUE],
      [data |-> "short", timeStamp |-> TRUE],
      [data |-> "buy", timeStamp |-> FALSE] }

(* a log of the node (blockNumber an int) or of Etherscan (a hex string) *)
Log(node, block, kind) ==
    [blockNumber |-> IF node THEN [st |-> "int", n |-> block, hex |-> << >>]
                     ELSE [st |-> "hex", n |-> 0, hex |-> HexOf(block)],
     data |-> kind.data, timeStamp |-> kind.timeStamp]

LogBlock(log) ==
    IF log.blockNumber.st = "int" THEN log.blockNumber.n
    ELSE IntBase16(log.blockNumber.hex)

(* the responses to one log request over from_block..to_block: up to n     *)
(* logs of those blocks, in ascending block order                          *)
RECURSIVE LogResponses(_, _, _, _)
LogResponses(node, from_block, to_block, n) ==
    IF n = 0 THEN { << >> }
    ELSE LogResponses(node, from_block, to_block, n - 1) \cup
         { Append(r, Log(node, b, k)) :
             r \in { x \in LogResponses(node, from_block, to_block, n - 1) : Len(x) = n - 1 },
             b \in {from_block, to_block}, k \in ExtractLogKinds }

Ascending(logs) ==
    \A i \in 1..Len(logs) - 1 : LogBlock(logs[i]) <= LogBlock(logs[i + 1])

(* get_pool_info of the V2 and V3 extractors: the four contract reads; any  *)
(* of them raising is logged and re-raised                                 *)
get_pool_info(token_ok, decimals_ok) ==
    IF token_ok /\ decimals_ok
    THEN [st |-> "ok", token_ok |-> token_ok, decimals_ok |-> decimals_ok,
          decimals0 |-> 18, decimals1 |-> 18]
    ELSE [st |-> "raised", token_ok |-> token_ok, decimals_ok |-> decimals_ok,
          decimals0 |-> 0, decimals1 |-> 0]

NoPoolInfo ==
    [st |-> "none", token_ok |-> FALSE, decimals_ok |-> FALSE,
     decimals0 |-> 0, decimals1 |-> 0]

(* the pool and the token of the run *)
ExtractPool == CHOOSE p \in PricePools : p.token0 = TKN

(* decode_swap_event on the data of a log that decodes *)
DecodedData(data) ==
    IF data = "buy"
    THEN [amount0In |-> << >>, amount1In |-> AmountSamples[4],
          amount0Out |-> AmountSamples[5], amount1Out |-> << >>]
    ELSE [amount0In |-> << >>, amount1In |-> << >>,
          amount0Out |-> << >>, amount1Out |-> << >>]

(* calculate_token_price on the decoded data, evaluated once per kind of data *)
ExtractPriceBuy == V2CalculateTokenPrice(DecodedData("buy"), ExtractPool, TKN_CHECKSUM)
ExtractPriceZero == V2CalculateTokenPrice(DecodedData("zero"), ExtractPool, TKN_CHECKSUM)
ExtractPrice(data) == IF data = "buy" THEN ExtractPriceBuy ELSE ExtractPriceZero

(* the methods of ETHPriceReader *)
ETHPriceReader_methods ==
    { "_load_csv_prices", "get_eth_price", "_get_eth_price_from_node",
      "_get_eth_price_from_csv" }

(* self.eth_price_reader.get_eth_price_at_timestamp(timestamp) raises       *)
(* AttributeError: the reader has no such method                           *)
get_eth_price_at_timestamp_raises ==
    "get_eth_price_at_timestamp" \notin ETHPriceReader_methods

(* the iteration on the event raises inside the try of the loop body: the   *)
(* event decodes, and its block or timestamp read raises or the ETH price  *)
(* lookup does                                                             *)
extract_prices_raises(event) ==
    /\ event.data # "short"
    /\ (~event.timeStamp \/ get_eth_price_at_timestamp_raises)

(* what one iteration of the loop of extract_prices makes of its event:    *)
(* nothing when it does not decode, when the iteration raises or when it   *)
(* has no price, else its price point; log_index is the event's position   *)
(* in swap_events                                                          *)
extract_price_point(event, log_index) ==
    IF event.data = "short" THEN << >>
    ELSE IF extract_prices_raises(event) THEN << >>
    ELSE IF ExtractPrice(event.data).st = "None" THEN << >>
    ELSE << [block_number |-> LogBlock(event),
             token_price_eth |-> ExtractPrice(event.data).v,
             log_index |-> log_index] >>

(* one iteration of the loop of extract_prices: continue, or               *)
(* prices.append(price_data)                                               *)
extract_prices_event(prices_so_far, event, log_index) ==
    prices_so_far \o extract_price_point(event, log_index)

(* where extract_prices is after one iteration: the except of the loop     *)
(* body logs a warning and continues, so the loop goes on to the next      *)
(* event whatever this one did                                             *)
extract_prices_loop(event) == "loop"

(* big_buy_analysis of a result without one: {} *)
NoBigBuyAnalysis ==
    [st |-> "empty", big_buys |-> << >>, total_big_buys |-> 0, error |-> "None"]

(* _analyze_big_buys: BigBuyAnalyzer() is called without the               *)
(* etherscan_api_key its __init__ requires and raises TypeError inside the *)
(* try; the except returns the record of a failed analysis                 *)
analyze_big_buys(extracted) ==
    [st |-> "record", big_buys |-> << >>, total_big_buys |-> 0,
     error |-> "TypeError"]

NoExResult ==
    [st |-> "none", prices |-> << >>, price_stats |-> [st |-> "empty", total_swaps |-> 0],
     big_buy_analysis |-> NoBigBuyAnalysis, error |-> "None"]

(* analyze_token_complete that reports an empty extraction as a success *)
analyze_token_complete_SilentEmpty(extracted) ==
    [st |-> "result", prices |-> extracted,
     price_stats |-> [st |-> IF extracted = << >> THEN "empty" ELSE "stats",
                      total_swaps |-> Len(extracted)],
     big_buy_analysis |-> IF extracted = << >> THEN NoBigBuyAnalysis
                          ELSE analyze_big_buys(extracted),
     error |-> "None"]

(* analyze_token_complete that lets the failure of the big-buy analysis    *)
(* out                                                                     *)
analyze_token_complete_Propagate(extracted) ==
    IF extracted = << >>
    THEN [st |-> "result", prices |-> << >>,
          price_stats |-> [st |-> "empty", total_swaps |-> 0],
          big_buy_analysis |-> NoBigBuyAnalysis, error |-> "No prices found"]
    ELSE [st |-> "raised", prices |-> << >>,
          price_stats |-> [st |-> "empty", total_swaps |-> 0],
          big_buy_analysis |-> NoBigBuyAnalysis, error |-> "TypeError"]

(* analyze_token_complete on what extract_prices returned *)
analyze_token_complete(extracted) ==
    IF extracted = << >>
    THEN [st |-> "result", prices |-> << >>,
          price_stats |-> [st |-> "empty", total_swaps |-> 0],
          big_buy_analysis |-> NoBigBuyAnalysis, error |-> "No prices found"]
    ELSE [st |-> "result", prices |-> extracted,
          price_stats |-> [st |-> "stats", total_swaps |-> Len(extracted)],
          big_buy_analysis |-> analyze_big_buys(extracted),
          error |-> "None"]

(* extract_token_data_for_batch after analyze_token_complete *)
extract_token_data_for_batch(result) ==
    IF result.error # "None" THEN "no_data" ELSE "data"

NoPrev == [case |-> "none", result |-> NoExResult, report |-> "none"]

ExtractFresh ==
    /\ current_block = 0
    /\ requests = << >>
    /\ swap_events = << >>
    /\ ex_index = 0
    /\ prices = << >>
    /\ ex_pool_info = NoPoolInfo
    /\ pool_info_reads = 0
    /\ ex_result = NoExResult
    /\ ex_report = "none"

ExtractIdle ==
    /\ ex_pc = "idle"
    /\ ex_version = "v2"
    /\ use_node = FALSE
    /\ ex_range = [start_block |-> 1000, end_block |-> 1999]
    /\ prev_run = NoPrev
    /\ ExtractFresh

(* EtherscanClient.get_swap_events not called *)
ChunksFresh ==
    /\ ch_current = 0
    /\ ch_requests = << >>
    /\ all_logs = << >>

ChunksIdle ==
    /\ ch_pc = "idle"
    /\ ch_from = 0
    /\ ch_to = 0
    /\ ch_batch = 0
    /\ ChunksFresh

(* the V3 calculate_token_price not called *)
V3Idle == methods_tried = << >> /\ price_ratio = FZero

(* _calculate_price_stats not called *)
StatsIdle ==
    /\ stat_prices = << >>
    /\ stats = NoStats

(* process_tokens_from_csv not called *)
BatchIdle ==
    /\ bt_pc = "idle"
    /\ bt_total = 0
    /\ bt_seen = << >>
    /\ bt_results = << >>
    /\ bt_saved = << >>

(* stats of process_file at its start *)
NoNormStats ==
    [total_swaps |-> 0, valid_swaps |-> 0, invalid_swaps |-> 0, normalized_swaps |-> 0]

(* normalize_swaps.process_file not called *)
NormIdle ==
    /\ nz_pc = "idle"
    /\ nz_lines = << >>
    /\ nz_stats = NoNormStats
    /\ nz_swaps = << >>

(* the callers that share one EnhancedUSDTOracle *)
Threads == {1, 2}

ThreadIdle ==
    [pc |-> "idle", op |-> "none", block |-> 0, scaled_price |-> << >>,
     metadata |-> NoMetadata]

ConcIdle == threads = [t \in Threads |-> ThreadIdle]

InitPrice ==
    /\ NormIdle
    /\ BatchIdle
    /\ StatsIdle
    /\ V3Idle
    /\ ChunksIdle
    /\ ExtractIdle
    /\ ConcIdle
    /\ calc \in {"v2", "pc"}
    /\ decoded_event \in V2Events
    /\ pool_info \in PricePools
    /\ price_eth = [t \in TargetTokens |-> Unset]
    /\ AnalyzerIdle
    /\ OracleIdle
    /\ ClassifyIdle

(* calculate_token_price of the V2 extractor, once per token of interest *)
V2Price ==
    /\ calc = "v2"
    /\ price_eth = [t \in TargetTokens |-> Unset]
    /\ price_eth' = [t \in TargetTokens |->
                       V2CalculateTokenPrice(decoded_event, pool_info, t)]
    /\ UNCHANGED << calc, decoded_event, pool_info, analyzerVars, oracleVars,
                    classifyVars, concVars, extractVars, chunkVars, v3Vars, statsVars, batchVars, normVars >>

(* calculate_token_price of PriceCalculator, once per token of interest *)
PCPrice ==
    /\ calc = "pc"
    /\ price_eth = [t \in TargetTokens |-> Unset]
    /\ price_eth' = [t \in TargetTokens |->
                       PCCalculateTokenPrice(decoded_event, t, "pool")]
    /\ UNCHANGED << calc, decoded_event, pool_info, analyzerVars, oracleVars,
                    classifyVars, concVars, extractVars, chunkVars, v3Vars, statsVars, batchVars, normVars >>

NextPrice ==
    \/ V2Price
    \/ PCPrice

SpecPrice == InitPrice /\ [][NextPrice]_vars

-----------------------------------------------------------------------------
(* find_big_buys_in_history as a loop over the pool's swap events.          *)

MaxEvents == 2

(* a log of swap_events: one that decodes to ev, one decode_swap_event     *)
(* returns None for, one whose processing raises (a log without its       *)
(* 'data' or 'topics')                                                     *)
AnalyzerLogs ==
    { [decoded |-> TRUE, ev |-> ev, raised |-> FALSE] : ev \in DecodedSwaps }
    \cup { [decoded |-> FALSE, ev |-> NoEvent, raised |-> FALSE],
           [decoded |-> FALSE, ev |-> NoEvent, raised |-> TRUE] }

(* the lists of at most n logs *)
AnalyzerLists(n) == UNION { [1..k -> AnalyzerLogs] : k \in 0..n }

InitAnalyzer ==
    /\ NormIdle
    /\ BatchIdle
    /\ StatsIdle
    /\ V3Idle
    /\ ChunksIdle
    /\ ExtractIdle
    /\ ConcIdle
    /\ PriceIdle
    /\ OracleIdle
    /\ ClassifyIdle
    /\ an_pc = "start"
    /\ an_pool \in AnalyzerPools
    /\ token_address \in { TKN_CHECKSUM, OTHER_TOKEN }
    /\ threshold_eth \in ThresholdEthSamples
    /\ an_events \in AnalyzerLists(MaxEvents)
    /\ events_seen = 0
    /\ last_event = [decoded |-> FALSE, ev |-> NoEvent, raised |-> FALSE]
    /\ big_buys = << >>

NotAnalyzer == << priceVars, oracleVars, classifyVars, concVars, extractVars, chunkVars, v3Vars, statsVars, batchVars, normVars >>

(* no WETH in the pool, or the other token is not token_address: return [] *)
AnalyzerReject ==
    /\ an_pc = "start"
    /\ ~find_big_buys_enters_loop(an_pool, token_address)
    /\ an_pc' = "done"
    /\ UNCHANGED << an_pool, token_address, threshold_eth, an_events, events_seen,
                    last_event, big_buys, NotAnalyzer >>

AnalyzerEnterLoop ==
    /\ an_pc = "start"
    /\ find_big_buys_enters_loop(an_pool, token_address)
    /\ an_pc' = "loop"
    /\ UNCHANGED << an_pool, token_address, threshold_eth, an_events, events_seen,
                    last_event, big_buys, NotAnalyzer >>

(* the loop that an exception of one iteration ends: the big buys so far   *)
(* are returned                                                            *)
find_big_buys_loop_Abort(event) ==
    IF event.raised THEN "done" ELSE "loop"

(* where find_big_buys_in_history is after one iteration: `continue` on an *)
(* event that does not decode and in the except of the loop body, so the   *)
(* loop goes on to the next event whatever this one did                    *)
find_big_buys_loop(event) == "loop"

(* one iteration on an event that decodes; tx_hash is the event's position *)
(* in swap_events                                                          *)
AnalyzerEvent ==
    /\ an_pc = "loop"
    /\ events_seen < Len(an_events)
    /\ an_events[events_seen + 1].decoded
    /\ last_event' = an_events[events_seen + 1]
    /\ big_buys' = find_big_buys_event(big_buys, an_events[events_seen + 1].ev, an_pool,
                                       threshold_eth, events_seen + 1)
    /\ events_seen' = events_seen + 1
    /\ an_pc' = find_big_buys_loop(an_events[events_seen + 1])
    /\ UNCHANGED << an_pool, token_address, threshold_eth, an_events, NotAnalyzer >>

(* one iteration on an event decode_swap_event returns None for: skipped *)
AnalyzerSkipEvent ==
    /\ an_pc = "loop"
    /\ events_seen < Len(an_events)
    /\ ~an_events[events_seen + 1].decoded
    /\ ~an_events[events_seen + 1].raised
    /\ last_event' = an_events[events_seen + 1]
    /\ events_seen' = events_seen + 1
    /\ an_pc' = find_big_buys_loop(an_events[events_seen + 1])
    /\ UNCHANGED << an_pool, token_address, threshold_eth, an_events, big_buys,
                    NotAnalyzer >>

(* one iteration on an event whose processing raises: the except clause    *)
(* logs a warning and continues                                            *)
AnalyzerRaiseEvent ==
    /\ an_pc = "loop"
    /\ events_seen < Len(an_events)
    /\ an_events[events_seen + 1].raised
    /\ last_event' = an_events[events_seen + 1]
    /\ events_seen' = events_seen + 1
    /\ an_pc' = find_big_buys_loop(an_events[events_seen + 1])
    /\ UNCHANGED << an_pool, token_address, threshold_eth, an_events, big_buys,
                    NotAnalyzer >>

(* the list is exhausted: return big_buys *)
AnalyzerReturn ==
    /\ an_pc = "loop"
    /\ events_seen = Len(an_events)
    /\ an_pc' = "done"
    /\ UNCHANGED << an_pool, token_address, threshold_eth, an_events, events_seen,
                    last_event, big_buys, NotAnalyzer >>

NextAnalyzer ==
    \/ AnalyzerReject
    \/ AnalyzerEnterLoop
    \/ AnalyzerEvent
    \/ AnalyzerSkipEvent
    \/ AnalyzerRaiseEvent
    \/ AnalyzerReturn

SpecAnalyzer == InitAnalyzer /\ [][NextAnalyzer]_vars

-----------------------------------------------------------------------------
(* Reference-price requests on one oracle instance.                        *)

MaxBucket == 1
MaxReads == 2

Bucket(block) == block \div cache_block_size

(* the first and the last block of every bucket up to MaxBucket *)
OracleBlocks ==
    { k * cache_block_size + r : k \in 0..MaxBucket, r \in {0, cache_block_size - 1} }

InitOracle ==
    /\ NormIdle
    /\ BatchIdle
    /\ StatsIdle
    /\ V3Idle
    /\ ChunksIdle
    /\ ExtractIdle
    /\ ConcIdle
    /\ PriceIdle
    /\ AnalyzerIdle
    /\ ClassifyIdle
    /\ oracle \in {"EnhancedUSDTOracle", "USDTOracle"}
    /\ web3_client \in Web3Clients
    /\ OracleFresh

ReadsOf(reads, k) == IF k \in DOMAIN reads THEN reads[k] ELSE 0

(* a positive price is available from the historical read / the live oracle *)
HistOk(client, slot0) ==
    client # "none" /\ slot0.st = "ok" /\ slot0.sqrtPriceX96 # << >>
LiveOk(client, live) ==
    client = "full" /\ live.st = "value" /\ FGt0(live.v)

(* the bookkeeping of one request *)
Record(block, r, slot0, live) ==
    /\ last_call' = [block |-> block, tiers |-> r.tiers, result |-> r.result,
                     hit |-> r.tiers = << >>,
                     hist_ok |-> HistOk(web3_client, slot0),
                     live_ok |-> LiveOk(web3_client, live),
                     logs |-> IF oracle = "EnhancedUSDTOracle"
                              THEN Enhanced_log_records(web3_client, slot0, live, r.tiers)
                              ELSE USDTOracle_log_records(web3_client, live, r.tiers)]
    /\ slot0_reads' = IF r.read
                      THEN DictPut(slot0_reads, Bucket(block),
                                   ReadsOf(slot0_reads, Bucket(block)) + 1)
                      ELSE slot0_reads
    /\ first_request' = IF Bucket(block) \in DOMAIN first_request
                        THEN first_request
                        ELSE DictPut(first_request, Bucket(block), block)

(* EnhancedUSDTOracle.get_eth_usdt_price_scaled(block) *)
EnhancedRequest ==
    /\ oracle = "EnhancedUSDTOracle"
    /\ \E block \in OracleBlocks, slot0 \in Slot0Outcomes, live \in LiveOutcomes :
          \E r \in { Enhanced_get_eth_usdt_price_scaled(eth_usdt_price_cache,
                        web3_client, block, slot0, live) } :
              /\ ReadsOf(slot0_reads, Bucket(block)) < MaxReads
              /\ eth_usdt_price_cache' = r.cache
              /\ Record(block, r, slot0, live)
    /\ UNCHANGED << oracle, web3_client, price_cache, priceVars, analyzerVars,
                    classifyVars, concVars, extractVars, chunkVars, v3Vars, statsVars, batchVars, normVars >>

(* USDTOracle._get_eth_usdt_price_scaled(block) *)
USDTOracleRequest ==
    /\ oracle = "USDTOracle"
    /\ \E block \in OracleBlocks, slot0 \in Slot0Outcomes, live \in LiveOutcomes :
          \E r \in { USDTOracle_get_eth_usdt_price_scaled(price_cache,
                        web3_client, block, live) } :
              /\ ReadsOf(slot0_reads, Bucket(block)) < MaxReads
              /\ price_cache' = r.cache
              /\ Record(block, r, slot0, live)
    /\ UNCHANGED << oracle, web3_client, eth_usdt_price_cache, priceVars,
                    analyzerVars,
                    classifyVars, concVars, extractVars, chunkVars, v3Vars, statsVars, batchVars, normVars >>

NextOracle ==
    \/ EnhancedRequest
    \/ USDTOracleRequest

SpecOracle == InitOracle /\ [][NextOracle]_vars

-----------------------------------------------------------------------------
(* Classification of the swaps of one pool, one swap per call.              *)

(* two blocks of one price bucket *)
ClassifyBlocks == { cache_block_size, 2 * cache_block_size - 1 }

(* BigBuyStorage with or without a USDTOracle, EnhancedUSDTOracle, and the  *)
(* JSONL writer with its USDTOracle                                        *)
InitClassify ==
    /\ NormIdle
    /\ BatchIdle
    /\ StatsIdle
    /\ V3Idle
    /\ ChunksIdle
    /\ ExtractIdle
    /\ ConcIdle
    /\ PriceIdle
    /\ AnalyzerIdle
    /\ classifier \in {"BigBuyStorage", "EnhancedUSDTOracle", "SwapJSONLWriter"}
    /\ oracle \in {"None", "USDTOracle", "EnhancedUSDTOracle"}
    /\ classifier = "BigBuyStorage" => oracle \in {"None", "USDTOracle"}
    /\ classifier = "EnhancedUSDTOracle" => oracle = "EnhancedUSDTOracle"
    /\ classifier = "SwapJSONLWriter" => oracle = "USDTOracle"
    /\ web3_client \in Web3Clients
    /\ OracleFresh
    /\ cl_pool \in ClassifyPools
    /\ ClassifyFresh

(* BigBuyStorage._analyze_swap_for_big_buy on a swap dictionary with the    *)
(* net amounts of the swap (under 'amount0'/'amount1' or 'a0'/'a1') and    *)
(* its block under one of the keys; the row the JSONL writer makes of the  *)
(* swap is the one with key 'b'                                            *)
StorageAnalyze ==
    /\ classifier = "BigBuyStorage"
    /\ \E ev \in ClassifySwaps(cl_pool), block \in ClassifyBlocks,
          block_key \in SwapBlockKeys, live \in LiveOutcomes :
          \E r \in { BigBuyStorage_analyze_swap_for_big_buy(
                         price_cache, web3_client, oracle = "USDTOracle",
                         SwapJSONLWriter_a0(ev, cl_pool.version),
                         SwapJSONLWriter_a1(ev, cl_pool.version),
                         BigBuyStorage_block_number(block_key, block),
                         cl_pool, live) } :
              /\ price_cache' = r.cache
              /\ cl_swap' = [ev |-> ev, block |-> block, has_pool_info |-> TRUE]
              /\ cl_result' = [st |-> "done", is_buy |-> r.is_buy,
                               is_big_buy_eth |-> r.is_big_buy_eth,
                               oracle_value |-> r.oracle_value,
                               is_big_buy_usdt |-> r.is_big_buy_usdt,
                               reported |-> r.reported]
    /\ UNCHANGED << classifier, cl_pool, pool_metadata_cache, oracle, web3_client,
                    eth_usdt_price_cache, last_call, slot0_reads, first_request,
                    priceVars, analyzerVars, concVars, extractVars, chunkVars, v3Vars, statsVars, batchVars, normVars >>

(* EnhancedUSDTOracle.get_usdt_value_for_swap on the row of the swap *)
EnhancedValue ==
    /\ classifier = "EnhancedUSDTOracle"
    /\ \E ev \in ClassifySwaps(cl_pool), block \in ClassifyBlocks,
          fetch_ok \in BOOLEAN, slot0 \in Slot0Outcomes, live \in LiveOutcomes :
          \E r \in { Enhanced_get_usdt_value_for_swap(
                         pool_metadata_cache, eth_usdt_price_cache, web3_client,
                         SwapJSONLWriter_a0(ev, cl_pool.version),
                         SwapJSONLWriter_a1(ev, cl_pool.version),
                         block, cl_pool, cl_pool.version, fetch_ok, slot0, live) } :
              /\ pool_metadata_cache' = r.meta_cache
              /\ eth_usdt_price_cache' = r.cache
              /\ cl_swap' = [ev |-> ev, block |-> block, has_pool_info |-> TRUE]
              /\ cl_result' = [st |-> "done", has_metadata |-> r.has_metadata,
                               usdt_value |-> r.usdt_value,
                               is_big_buy |-> r.is_big_buy]
    /\ UNCHANGED << classifier, cl_pool, oracle, web3_client, price_cache,
                    last_call, slot0_reads, first_request, priceVars, analyzerVars, concVars, extractVars, chunkVars, v3Vars, statsVars, batchVars, normVars >>

(* SwapJSONLWriter._convert_to_minimal_format, with and without pool_info *)
JSONLConvert ==
    /\ classifier = "SwapJSONLWriter"
    /\ \E ev \in ClassifySwaps(cl_pool), block \in ClassifyBlocks,
          has_pool_info \in BOOLEAN, live \in LiveOutcomes :
          \E r \in { SwapJSONLWriter_convert_to_minimal_format(
                         price_cache, web3_client, ev, block, cl_pool.version,
                         has_pool_info, cl_pool, live) } :
              /\ price_cache' = r.cache
              /\ cl_swap' = [ev |-> ev, block |-> block,
                             has_pool_info |-> has_pool_info]
              /\ cl_result' = [st |-> "done", a0 |-> r.a0, a1 |-> r.a1,
                               usdt_value_raw |-> r.usdt_value_raw,
                               usdt |-> r.usdt, bb |-> r.bb]
    /\ UNCHANGED << classifier, cl_pool, pool_metadata_cache, oracle, web3_client,
                    eth_usdt_price_cache, last_call, slot0_reads, first_request,
                    priceVars, analyzerVars, concVars, extractVars, chunkVars, v3Vars, statsVars, batchVars, normVars >>

NextClassify ==
    \/ StorageAnalyze
    \/ EnhancedValue
    \/ JSONLConvert

SpecClassify == InitClassify /\ [][NextClassify]_vars


(* ---------------------------------------------------------------------- *)
(* Two callers interleaved on one EnhancedUSDTOracle.  Each call is the     *)
(* statement sequence of the method: the membership test, the remote reads, *)
(* and the assignment into the shared dict; another caller may run between  *)
(* any two of them.                                                        *)
(* ---------------------------------------------------------------------- *)
InitConcurrent ==
    /\ NormIdle
    /\ BatchIdle
    /\ StatsIdle
    /\ V3Idle
    /\ ChunksIdle
    /\ ExtractIdle
    /\ PriceIdle
    /\ AnalyzerIdle
    /\ oracle = "EnhancedUSDTOracle"
    /\ web3_client \in Web3Clients
    /\ OracleFresh
    /\ classifier = "EnhancedUSDTOracle"
    /\ cl_pool \in ClassifyPools
    /\ ClassifyFresh
    /\ ConcIdle

ThreadSet(t, rec) == threads' = [threads EXCEPT ![t] = rec]

(* get_eth_usdt_price_scaled up to the membership test: a hit returns the   *)
(* cached value, a miss goes on to the remote reads                        *)
PriceCheck(t) ==
    /\ threads[t].pc = "idle"
    /\ \E block \in ClassifyBlocks :
          IF BlockRange(block) \in DOMAIN eth_usdt_price_cache
          THEN ThreadSet(t, [ThreadIdle EXCEPT !.pc = "returned", !.op = "price",
                                !.block = block,
                                !.scaled_price = eth_usdt_price_cache[BlockRange(block)]])
          ELSE ThreadSet(t, [ThreadIdle EXCEPT !.pc = "miss", !.op = "price",
                                !.block = block])
    /\ UNCHANGED << priceVars, analyzerVars, oracleVars, classifyVars, extractVars, chunkVars, v3Vars, statsVars, batchVars, normVars >>

(* the remote reads of a miss: scaled_price of the answering tier *)
PriceCompute(t) ==
    /\ threads[t].pc = "miss"
    /\ threads[t].op = "price"
    /\ \E slot0 \in Slot0Outcomes, live \in LiveOutcomes :
          \E r \in { Enhanced_cache_miss(EmptyDict, web3_client, BlockRange(threads[t].block), Enhanced_get_v3_price_from_slot0(web3_client, slot0), live) } :
              ThreadSet(t, [threads[t] EXCEPT !.pc = "computed", !.scaled_price = r.result.n])
    /\ UNCHANGED << priceVars, analyzerVars, oracleVars, classifyVars, extractVars, chunkVars, v3Vars, statsVars, batchVars, normVars >>

(* self.eth_usdt_price_cache[block_range] = scaled_price; return *)
PriceInsert(t) ==
    /\ threads[t].pc = "computed"
    /\ threads[t].op = "price"
    /\ eth_usdt_price_cache' = DictPut(eth_usdt_price_cache, BlockRange(threads[t].block), threads[t].scaled_price)
    /\ ThreadSet(t, [threads[t] EXCEPT !.pc = "returned"])
    /\ UNCHANGED << oracle, web3_client, price_cache, last_call, slot0_reads,
                    first_request, priceVars, analyzerVars, classifyVars, extractVars, chunkVars, v3Vars, statsVars, batchVars, normVars >>

(* get_pool_metadata up to the membership test *)
MetadataCheck(t) ==
    /\ threads[t].pc = "idle"
    /\ IF Lower(cl_pool.pool_address) \in DOMAIN pool_metadata_cache
       THEN ThreadSet(t, [ThreadIdle EXCEPT !.pc = "returned", !.op = "metadata",
                             !.metadata = pool_metadata_cache[Lower(cl_pool.pool_address)]])
       ELSE ThreadSet(t, [ThreadIdle EXCEPT !.pc = "miss", !.op = "metadata"])
    /\ UNCHANGED << priceVars, analyzerVars, oracleVars, classifyVars, extractVars, chunkVars, v3Vars, statsVars, batchVars, normVars >>

(* the contract calls of a miss; a failure returns {} without an insert *)
MetadataFetch(t) ==
    /\ threads[t].pc = "miss"
    /\ threads[t].op = "metadata"
    /\ \E fetch_ok \in BOOLEAN :
          \E r \in { Enhanced_get_pool_metadata(EmptyDict, web3_client, cl_pool, cl_pool.version, fetch_ok) } :
              ThreadSet(t, [threads[t] EXCEPT
                               !.pc = IF r.metadata = NoMetadata THEN "returned" ELSE "computed",
                               !.metadata = r.metadata])
    /\ UNCHANGED << priceVars, analyzerVars, oracleVars, classifyVars, extractVars, chunkVars, v3Vars, statsVars, batchVars, normVars >>

(* self.pool_metadata_cache[pool_key] = metadata; return metadata *)
MetadataInsert(t) ==
    /\ threads[t].pc = "computed"
    /\ threads[t].op = "metadata"
    /\ pool_metadata_cache' = DictPut(pool_metadata_cache, Lower(cl_pool.pool_address), threads[t].metadata)
    /\ ThreadSet(t, [threads[t] EXCEPT !.pc = "returned"])
    /\ UNCHANGED << classifier, cl_pool, cl_swap, cl_result, priceVars,
                    analyzerVars, oracleVars, extractVars, chunkVars, v3Vars, statsVars, batchVars, normVars >>

(* the call has returned; the caller may call again *)
ThreadReturn(t) ==
    /\ threads[t].pc = "returned"
    /\ ThreadSet(t, ThreadIdle)
    /\ UNCHANGED << priceVars, analyzerVars, oracleVars, classifyVars, extractVars, chunkVars, v3Vars, statsVars, batchVars, normVars >>

NextConcurrent ==
    \E t \in Threads :
        \/ PriceCheck(t)
        \/ PriceCompute(t)
        \/ PriceInsert(t)
        \/ MetadataCheck(t)
        \/ MetadataFetch(t)
        \/ MetadataInsert(t)
        \/ ThreadReturn(t)

SpecConcurrent == InitConcurrent /\ [][NextConcurrent]_vars


(* ---------------------------------------------------------------------- *)
(* An analysis run of a V2 or V3 extractor over one pool and block range, as *)
(* extract_token_data_for_batch drives it, followed by the next run of the *)
(* token list.                                                             *)
(* ---------------------------------------------------------------------- *)
InitExtract ==
    /\ NormIdle
    /\ BatchIdle
    /\ StatsIdle
    /\ V3Idle
    /\ ChunksIdle
    /\ PriceIdle
    /\ AnalyzerIdle
    /\ OracleIdle
    /\ ClassifyIdle
    /\ ConcIdle
    /\ ex_pc = "start"
    /\ ex_version \in {"v2", "v3"}
    /\ use_node \in BOOLEAN
    /\ ex_range \in ExtractRanges
    /\ prev_run = NoPrev
    /\ ExtractFresh

OtherParts == << priceVars, analyzerVars, oracleVars, classifyVars, concVars >>

AnyFailed(reqs) == \E i \in 1..Len(reqs) : reqs[i] = "failed"

(* extract_prices up to get_swap_events: get_pool_info; when it raises the  *)
(* outer except returns the empty prices                                   *)
ExtractStart ==
    /\ ex_pc = "start"
    /\ \E token_ok \in BOOLEAN, decimals_ok \in BOOLEAN :
          \E r \in { get_pool_info(token_ok, decimals_ok) } :
              /\ ex_pool_info' = r
              /\ ex_pc' = IF r.st = "ok" THEN "fetch" ELSE "extracted"
    /\ pool_info_reads' = pool_info_reads + 1
    /\ current_block' = ex_range.start_block
    /\ UNCHANGED << ex_version, use_node, ex_range, requests, swap_events, ex_index, prices,
                    ex_result, ex_report, prev_run, OtherParts, chunkVars, v3Vars, statsVars, batchVars, normVars >>

BatchEnd == 
    IF current_block + batch_size - 1 < ex_range.end_block
    THEN current_block + batch_size - 1
    ELSE ex_range.end_block

(* EtherscanClient.get_swap_events: one batch of the while loop; a request  *)
(* that raises is skipped and the loop goes on with the next batch         *)
FetchBatch ==
    /\ ex_pc = "fetch"
    /\ ~use_node
    /\ current_block <= ex_range.end_block
    /\ \/ /\ requests' = Append(requests, "failed")
          /\ UNCHANGED swap_events
       \/ \E logs \in LogResponses(FALSE, current_block, BatchEnd, MaxLogs - Len(swap_events)) :
             /\ Ascending(logs)
             /\ requests' = Append(requests, "ok")
             /\ swap_events' = swap_events \o logs
    /\ current_block' = BatchEnd + 1
    /\ UNCHANGED << ex_pc, ex_version, use_node, ex_range, ex_index, prices, ex_pool_info,
                    pool_info_reads, ex_result, ex_report, prev_run, OtherParts, chunkVars, v3Vars, statsVars, batchVars, normVars >>

(* EtherscanClient.get_swap_events: the range is covered: return all_logs *)
FetchReturn ==
    /\ ex_pc = "fetch"
    /\ ~use_node
    /\ current_block > ex_range.end_block
    /\ ex_pc' = "loop"
    /\ UNCHANGED << ex_version, use_node, ex_range, current_block, requests, swap_events,
                    ex_index, prices, ex_pool_info, pool_info_reads, ex_result,
                    ex_report, prev_run, OtherParts, chunkVars, v3Vars, statsVars, batchVars, normVars >>

(* decode_swap_event returns a dictionary for the log (not None) *)
Decodes(log) == log.data # "short"

(* the list get_swap_events makes of the logs of the node: the V2          *)
(* extractor returns them as they are, the V3 extractor decodes each and   *)
(* keeps only those that decode                                            *)
node_swap_events(version, logs) ==
    IF version = "v3" THEN SelectSeq(logs, Decodes) ELSE logs

(* get_swap_events on the node: one Web3Client.get_logs over the range,     *)
(* which returns [] when the request raises                                *)
FetchLogsNode ==
    /\ \/ /\ requests' = Append(requests, "failed")
          /\ swap_events' = << >>
       \/ \E logs \in LogResponses(TRUE, ex_range.start_block, ex_range.end_block, MaxLogs) :
             /\ Ascending(logs)
             /\ requests' = Append(requests, "ok")
             /\ swap_events' = node_swap_events(ex_version, logs)
    /\ ex_pc' = "loop"

(* get_swap_events of the V2 extractor on the node *)
FetchNode ==
    /\ ex_pc = "fetch"
    /\ use_node
    /\ ex_version = "v2"
    /\ FetchLogsNode
    /\ UNCHANGED << ex_version, use_node, ex_range, current_block, ex_index, prices,
                    ex_pool_info, pool_info_reads, ex_result, ex_report, prev_run,
                    OtherParts, chunkVars, v3Vars, statsVars, batchVars, normVars >>

(* get_swap_events of the V3 extractor on the node: it calls get_pool_info *)
(* again before the request; when that raises, the outer except of         *)
(* extract_prices returns the empty prices                                 *)
FetchNodeV3 ==
    /\ ex_pc = "fetch"
    /\ use_node
    /\ ex_version = "v3"
    /\ pool_info_reads' = pool_info_reads + 1
    /\ \E token_ok \in BOOLEAN, decimals_ok \in BOOLEAN :
          \E r \in { get_pool_info(token_ok, decimals_ok) } :
              IF r.st = "ok"
              THEN /\ FetchLogsNode
                   /\ UNCHANGED ex_pool_info
              ELSE /\ ex_pool_info' = r
                   /\ ex_pc' = "extracted"
                   /\ UNCHANGED << requests, swap_events >>
    /\ UNCHANGED << ex_version, use_node, ex_range, current_block, ex_index, prices,
                    ex_result, ex_report, prev_run, OtherParts, chunkVars, v3Vars,
                    statsVars, batchVars, normVars >>

(* one iteration of the loop of extract_prices *)
ProcessEvent ==
    /\ ex_pc = "loop"
    /\ ex_index < Len(swap_events)
    /\ prices' = extract_prices_event(prices, swap_events[ex_index + 1], ex_index + 1)
    /\ ex_index' = ex_index + 1
    /\ ex_pc' = extract_prices_loop(swap_events[ex_index + 1])
    /\ UNCHANGED << ex_version, use_node, ex_range, current_block, requests,
                    swap_events, ex_pool_info, pool_info_reads, ex_result,
                    ex_report, prev_run, OtherParts, chunkVars, v3Vars, statsVars, batchVars, normVars >>

(* the list is exhausted: return prices *)
ExtractReturn ==
    /\ ex_pc = "loop"
    /\ ex_index = Len(swap_events)
    /\ ex_pc' = "extracted"
    /\ UNCHANGED << ex_version, use_node, ex_range, current_block, requests, swap_events,
                    ex_index, prices, ex_pool_info, pool_info_reads, ex_result,
                    ex_report, prev_run, OtherParts, chunkVars, v3Vars, statsVars, batchVars, normVars >>

(* analyze_token_complete after extract_prices: the statistics and         *)
(* _analyze_big_buys, which fails before it reads anything                 *)
Analyze ==
    /\ ex_pc = "extracted"
    /\ ex_result' = analyze_token_complete(prices)
    /\ ex_pc' = "analyzed"
    /\ UNCHANGED << ex_version, use_node, ex_range, current_block, requests, swap_events,
                    ex_index, prices, ex_pool_info, pool_info_reads, ex_report,
                    prev_run, OtherParts, chunkVars, v3Vars, statsVars, batchVars, normVars >>

(* extract_token_data_for_batch: no data, or the data of the run *)
Report ==
    /\ ex_pc = "analyzed"
    /\ ex_report' = extract_token_data_for_batch(ex_result)
    /\ ex_pc' = "reported"
    /\ UNCHANGED << ex_version, use_node, ex_range, current_block, requests, swap_events,
                    ex_index, prices, ex_pool_info, pool_info_reads, ex_result,
                    prev_run, OtherParts, chunkVars, v3Vars, statsVars, batchVars, normVars >>

(* which of the zero-priced outcomes a finished run is *)
RunCase ==
    IF prices # << >> THEN "priced"
    ELSE IF ex_pool_info.st # "ok" \/ AnyFailed(requests) THEN "failed"
    ELSE IF swap_events = << >> THEN "no_events"
    ELSE "none_priceable"

(* process_token_list: the next row, with a new extractor, after a run      *)
(* that priced no swap                                                     *)
NewRun ==
    /\ ex_pc = "reported"
    /\ prices = << >>
    /\ prev_run = NoPrev
    /\ prev_run' = [case |-> RunCase, result |-> ex_result, report |-> ex_report]
    /\ ex_pc' = "start"
    /\ current_block' = 0
    /\ requests' = << >>
    /\ swap_events' = << >>
    /\ ex_index' = 0
    /\ ex_pool_info' = NoPoolInfo
    /\ pool_info_reads' = 0
    /\ ex_result' = NoExResult
    /\ ex_report' = "none"
    /\ UNCHANGED << ex_version, use_node, ex_range, prices, OtherParts, chunkVars, v3Vars, statsVars, batchVars, normVars >>

NextExtract ==
    \/ ExtractStart
    \/ FetchBatch
    \/ FetchReturn
    \/ FetchNode
    \/ FetchNodeV3
    \/ ProcessEvent
    \/ ExtractReturn
    \/ Analyze
    \/ Report
    \/ NewRun

SpecExtract == InitExtract /\ [][NextExtract]_vars

(* the two event loops, each run from its own start: extract_prices and    *)
(* find_big_buys_in_history                                                *)
InitLoops == InitExtract \/ InitAnalyzer

NextLoops ==
    \/ NextExtract
    \/ NextAnalyzer

SpecLoops == InitLoops /\ [][NextLoops]_vars

(* ---------------------------------------------------------------------- *)
(* BaseUniswapExtractor.analyze_token_complete on the list the extractor's *)
(* extract_prices returned, for an extractor whose extract_prices returns  *)
(* price points (the method is abstract in the base class).                *)
(* ---------------------------------------------------------------------- *)

(* most price points in a returned list *)
MaxExtracted == 2

(* the lists of up to n price points, in the order of their logs *)
RECURSIVE ExtractedLists(_)
ExtractedLists(n) ==
    IF n = 0 THEN { << >> }
    ELSE ExtractedLists(n - 1) \cup
         { Append(l, [block_number |-> b, token_price_eth |-> v, log_index |-> n]) :
             l \in { x \in ExtractedLists(n - 1) : Len(x) = n - 1 },
             b \in { 1000, 1999 }, v \in { ExtractPriceBuy.v, FOne } }

InitAnalysis ==
    /\ NormIdle
    /\ BatchIdle
    /\ StatsIdle
    /\ V3Idle
    /\ ChunksIdle
    /\ PriceIdle
    /\ AnalyzerIdle
    /\ OracleIdle
    /\ ClassifyIdle
    /\ ConcIdle
    /\ ex_pc = "extracted"
    /\ ex_version \in {"v2", "v3"}
    /\ use_node \in BOOLEAN
    /\ ex_range = [start_block |-> 1000, end_block |-> 1999]
    /\ prev_run = NoPrev
    /\ current_block = 0
    /\ requests = << >>
    /\ swap_events = << >>
    /\ ex_index = 0
    /\ prices \in ExtractedLists(MaxExtracted)
    /\ ex_pool_info = NoPoolInfo
    /\ pool_info_reads = 0
    /\ ex_result = NoExResult
    /\ ex_report = "none"

NextAnalysis ==
    \/ Analyze
    \/ Report

SpecAnalysis == InitAnalysis /\ [][NextAnalysis]_vars

(* ---------------------------------------------------------------------- *)
(* EtherscanClient.get_swap_events on its own: the walk over the range in  *)
(* batches, for the batch sizes and ranges its signature takes.            *)
(* ---------------------------------------------------------------------- *)

(* the ranges and batch sizes of the calls *)
FromBlocks == {10, 11}
ToBlocks == 9..14
BatchSizes == {0, 1, 2, 3, batch_size}

(* most requests of one call that are recorded *)
MaxRequests == 5

(* end_block = min(current_block + batch_size - 1, to_block), read as one   *)
(* block too many                                                          *)
Etherscan_end_block_Inclusive(cur, size, to_block) ==
    IF cur + size < to_block THEN cur + size ELSE to_block

(* end_block = min(current_block + batch_size - 1, to_block) *)
Etherscan_end_block(cur, size, to_block) ==
    IF cur + size - 1 < to_block THEN cur + size - 1 ELSE to_block

(* what get_logs answers to one request: a list of logs of the requested   *)
(* blocks, the empty list, the 'No records found' error of an empty range, *)
(* or another error                                                        *)
GetLogsOutcomes(from_block, to_block) ==
    {[st |-> "ok", logs |-> << >>],
     [st |-> "no_records", logs |-> << >>],
     [st |-> "error", logs |-> << >>]} \cup
    (IF from_block <= to_block
     THEN {[st |-> "ok", logs |-> << [blockNumber |-> from_block] >>],
           [st |-> "ok", logs |-> << [blockNumber |-> from_block],
                                     [blockNumber |-> to_block] >>]}
     ELSE {})

(* the batch that drops what was collected when a request raises *)
Etherscan_extend_Reset(logs_so_far, outcome) ==
    IF outcome.st = "ok" THEN logs_so_far \o outcome.logs ELSE << >>

(* the try of one batch: if logs: all_logs.extend(logs); the except adds   *)
(* nothing                                                                 *)
Etherscan_extend(logs_so_far, outcome) ==
    IF outcome.st = "ok" /\ outcome.logs # << >>
    THEN logs_so_far \o outcome.logs
    ELSE logs_so_far

InitChunks ==
    /\ NormIdle
    /\ BatchIdle
    /\ StatsIdle
    /\ V3Idle
    /\ PriceIdle
    /\ AnalyzerIdle
    /\ OracleIdle
    /\ ClassifyIdle
    /\ ConcIdle
    /\ ExtractIdle
    /\ ch_pc = "loop"
    /\ ch_from \in FromBlocks
    /\ ch_to \in ToBlocks
    /\ ch_batch \in BatchSizes
    /\ ch_current = ch_from
    /\ ch_requests = << >>
    /\ all_logs = << >>

NotChunks == << priceVars, analyzerVars, oracleVars, classifyVars, concVars, extractVars >>

(* one iteration of the while loop: the request, the extension of all_logs *)
(* or the except clause, and current_block = end_block + 1 on either path; *)
(* requests beyond MaxRequests are made but no longer recorded             *)
ChunkRequest ==
    /\ ch_pc = "loop"
    /\ ch_current <= ch_to
    /\ \E end_block \in { Etherscan_end_block(ch_current, ch_batch, ch_to) } :
          /\ \E outcome \in GetLogsOutcomes(ch_current, end_block) :
                /\ all_logs' = Etherscan_extend(all_logs, outcome)
                /\ ch_requests' =
                      IF Len(ch_requests) < MaxRequests
                      THEN Append(ch_requests, [from_block |-> ch_current,
                                                to_block |-> end_block,
                                                outcome |-> outcome])
                      ELSE ch_requests
          /\ ch_current' = end_block + 1
    /\ UNCHANGED << ch_pc, ch_from, ch_to, ch_batch, NotChunks, v3Vars, statsVars, batchVars, normVars >>

(* the condition of the while loop is false: return all_logs *)
ChunkReturn ==
    /\ ch_pc = "loop"
    /\ ch_current > ch_to
    /\ ch_pc' = "returned"
    /\ UNCHANGED << ch_from, ch_to, ch_batch, ch_current, ch_requests, all_logs,
                    NotChunks, v3Vars, statsVars, batchVars, normVars >>

NextChunks ==
    \/ ChunkRequest
    \/ ChunkReturn

SpecChunks == InitChunks /\ [][NextChunks]_vars

(* the call runs on: the loop is not suspended for ever *)
SpecChunksFair == InitChunks /\ [][NextChunks]_vars /\ WF_vars(NextChunks)

(* ---------------------------------------------------------------------- *)
(* calculate_token_price of the V3 extractor on one decoded swap.          *)
(* ---------------------------------------------------------------------- *)
InitV3Price ==
    /\ NormIdle
    /\ BatchIdle
    /\ StatsIdle
    /\ AnalyzerIdle
    /\ OracleIdle
    /\ ClassifyIdle
    /\ ConcIdle
    /\ ExtractIdle
    /\ ChunksIdle
    /\ calc = "v3"
    /\ decoded_event \in V3Events
    /\ pool_info \in V3Pools
    /\ price_eth = [t \in TargetTokens |-> Unset]
    /\ methods_tried = << >>
    /\ price_ratio = FZero

(* calculate_token_price of the V3 extractor, once per token of interest *)
V3Price ==
    /\ calc = "v3"
    /\ price_eth = [t \in TargetTokens |-> Unset]
    /\ \E square \in FSquare(FDivBig(decoded_event.sqrtPriceX96, TwoTo96)) :
          \E ratio \in { V3PriceRatio(square, pool_info) } :
              /\ price_ratio' = ratio
              /\ price_eth' = [t \in TargetTokens |->
                                 V3CalculateTokenPrice(decoded_event, pool_info, t, ratio)]
              /\ methods_tried' = [t \in TargetTokens |->
                                     V3MethodsTried(pool_info, t, ratio)]
    /\ UNCHANGED << calc, decoded_event, pool_info, analyzerVars, oracleVars,
                    classifyVars, concVars, extractVars, chunkVars, statsVars, batchVars, normVars >>

NextV3Price == V3Price

SpecV3Price == InitV3Price /\ [][NextV3Price]_vars

(* ---------------------------------------------------------------------- *)
(* _calculate_price_stats on one list of price points.                     *)
(* ---------------------------------------------------------------------- *)
InitStats ==
    /\ NormIdle
    /\ BatchIdle
    /\ PriceIdle
    /\ AnalyzerIdle
    /\ OracleIdle
    /\ ClassifyIdle
    /\ ConcIdle
    /\ ExtractIdle
    /\ ChunksIdle
    /\ V3Idle
    /\ stat_prices \in PriceLists
    /\ stats = NoStats

CalculateStats ==
    /\ stats = NoStats
    /\ stats' = calculate_price_stats(stat_prices)
    /\ UNCHANGED << stat_prices, priceVars, analyzerVars, oracleVars, classifyVars,
                    concVars, extractVars, chunkVars, v3Vars, batchVars, normVars >>

NextStats == CalculateStats

SpecStats == InitStats /\ [][NextStats]_vars

(* ---------------------------------------------------------------------- *)
(* Batch mode: process_tokens_from_csv over the rows of the CSV file.      *)
(* ---------------------------------------------------------------------- *)

(* most rows of the file *)
MaxTokens == 3

(* what the body of the try comes to for one row: an exception before or   *)
(* in the analysis, or analyze_token_complete on what extract_prices       *)
(* returned, which is the empty list for every extractor the factory       *)
(* creates (the ETH price lookup of their loops raises on every event)     *)
RowOutcomes ==
    { [st |-> "raised", prices |-> << >>],
      [st |-> "analysis", prices |-> << >>] }

(* the test that skips a row: not result or 'error' in result *)
batch_skips(result) == result = << >> \/ "error" \in DOMAIN result

(* analysis_data of a row that is kept *)
analysis_data(row, result) ==
    [row |-> row, prices |-> result.prices, price_stats |-> result.price_stats,
     big_buys |-> result.big_buy_analysis.big_buys]

(* the body of the loop for one row *)
batch_row(results, row, outcome) ==
    IF outcome.st = "raised" THEN results
    ELSE IF batch_skips(analyze_token_complete(outcome.prices)) THEN results
    ELSE Append(results, analysis_data(row, analyze_token_complete(outcome.prices)))

InitBatch ==
    /\ NormIdle
    /\ PriceIdle
    /\ AnalyzerIdle
    /\ OracleIdle
    /\ ClassifyIdle
    /\ ConcIdle
    /\ ExtractIdle
    /\ ChunksIdle
    /\ V3Idle
    /\ StatsIdle
    /\ bt_pc = "loop"
    /\ bt_total \in 0..MaxTokens
    /\ bt_seen = << >>
    /\ bt_results = << >>
    /\ bt_saved = << >>

NotBatch == << priceVars, analyzerVars, oracleVars, classifyVars, concVars, extractVars, chunkVars, v3Vars, statsVars >>

(* one iteration of the for loop *)
BatchRow ==
    /\ bt_pc = "loop"
    /\ Len(bt_seen) < bt_total
    /\ \E outcome \in RowOutcomes :
          /\ bt_results' = batch_row(bt_results, Len(bt_seen) + 1, outcome)
          /\ bt_seen' = Append(bt_seen, outcome)
    /\ UNCHANGED << bt_pc, bt_total, bt_saved, NotBatch, normVars >>

(* csv_writer.save_prices_to_object_csv(results, append_mode=False): the    *)
(* writer's method has no parameter append_mode (and requires output_file  *)
(* and token_address), so the call raises TypeError before anything is     *)
(* written                                                                 *)
save_prices_to_object_csv(saved, results) ==
    [pc |-> "raised", saved |-> saved]

(* after the loop: `if results:` calls the writer, outside any try; else   *)
(* 'No results to save'                                                    *)
batch_save(saved, results) ==
    IF results # << >> THEN save_prices_to_object_csv(saved, results)
    ELSE [pc |-> "nothing_to_save", saved |-> saved]

BatchSave ==
    /\ bt_pc = "loop"
    /\ Len(bt_seen) = bt_total
    /\ bt_saved' = batch_save(bt_saved, bt_results).saved
    /\ bt_pc' = batch_save(bt_saved, bt_results).pc
    /\ UNCHANGED << bt_total, bt_seen, bt_results, NotBatch, normVars >>

NextBatch ==
    \/ BatchRow
    \/ BatchSave

SpecBatch == InitBatch /\ [][NextBatch]_vars

(* ---------------------------------------------------------------------- *)
(* normalize_swaps.process_file over the lines of one file.                *)
(* ---------------------------------------------------------------------- *)

(* most lines of the file *)
MaxLines == 3

(* the lines: text that is not JSON, a JSON number, a JSON list, and swap  *)
(* objects: a valid one, one of a pool that is not in pools.csv, one       *)
(* without its hash and one whose hash is the number 123                   *)
InputLines ==
    { [json |-> "malformed", h |-> "missing", p |-> "known"],
      [json |-> "number", h |-> "missing", p |-> "known"],
      [json |-> "list", h |-> "missing", p |-> "known"],
      [json |-> "object", h |-> "hex66", p |-> "known"],
      [json |-> "object", h |-> "hex66", p |-> "unknown"],
      [json |-> "object", h |-> "missing", p |-> "known"],
      [json |-> "object", h |-> "int", p |-> "known"] }

(* validate_swap: the number of issues, or the TypeError of `field not in  *)
(* swap` on a number                                                       *)
validate_swap(swap) ==
    IF swap.json = "number" THEN [st |-> "raised", issues |-> 0]
    ELSE IF swap.json = "list" THEN [st |-> "issues", issues |-> 9]
    ELSE IF swap.h = "missing" THEN [st |-> "issues", issues |-> 1]
    ELSE [st |-> "issues",
          issues |-> (IF swap.p = "unknown" THEN 1 ELSE 0) +
                     (IF swap.h = "int" THEN 1 ELSE 0)]

(* normalize_swap: swap.get raises on a list and h.startswith on a hash    *)
(* that is a number                                                        *)
normalize_swap(swap) ==
    IF swap.json = "list" THEN "raised"
    ELSE IF swap.h = "int" THEN "raised"
    ELSE "normalized"

Bump(st, field) == [st EXCEPT ![field] = @ + 1]

(* the counters after validation and normalization of a decoded line *)
AfterNormalize(st, swap) ==
    IF normalize_swap(swap) = "raised" THEN Bump(st, "invalid_swaps")
    ELSE Bump(st, "normalized_swaps")

(* the counters after the try of one line, total_swaps counted before it *)
AfterValidate(st, swap) ==
    IF swap.json = "malformed" THEN Bump(st, "invalid_swaps")
    ELSE IF validate_swap(swap).st = "raised" THEN Bump(st, "invalid_swaps")
    ELSE IF validate_swap(swap).issues > 0
    THEN AfterNormalize(Bump(st, "invalid_swaps"), swap)
    ELSE AfterNormalize(Bump(st, "valid_swaps"), swap)

(* the body of the loop over the lines *)
process_line(st, swap) == AfterValidate(Bump(st, "total_swaps"), swap)

(* whether the line's swap was appended to swaps *)
LineNormalized(swap) ==
    /\ swap.json \notin {"malformed"}
    /\ validate_swap(swap).st # "raised"
    /\ normalize_swap(swap) = "normalized"

InitNormalize ==
    /\ PriceIdle
    /\ AnalyzerIdle
    /\ OracleIdle
    /\ ClassifyIdle
    /\ ConcIdle
    /\ ExtractIdle
    /\ ChunksIdle
    /\ V3Idle
    /\ StatsIdle
    /\ BatchIdle
    /\ nz_pc = "loop"
    /\ nz_lines = << >>
    /\ nz_stats = NoNormStats
    /\ nz_swaps = << >>

NotNormalize == << priceVars, analyzerVars, oracleVars, classifyVars, concVars, extractVars, chunkVars, v3Vars, statsVars, batchVars >>

(* one line of the file *)
NormalizeLine ==
    /\ nz_pc = "loop"
    /\ Len(nz_lines) < MaxLines
    /\ \E line \in InputLines :
          /\ nz_stats' = process_line(nz_stats, line)
          /\ nz_swaps' = IF LineNormalized(line) THEN Append(nz_swaps, line)
                         ELSE nz_swaps
          /\ nz_lines' = Append(nz_lines, line)
    /\ UNCHANGED << nz_pc, NotNormalize >>

(* the end of the file: return stats *)
NormalizeReturn ==
    /\ nz_pc = "loop"
    /\ nz_pc' = "returned"
    /\ UNCHANGED << nz_lines, nz_stats, nz_swaps, NotNormalize >>

NextNormalize ==
    \/ NormalizeLine
    \/ NormalizeReturn

SpecNormalize == InitNormalize /\ [][NextNormalize]_vars
-----------------------------------------------------------------------------
(* Properties of the price calculators.                                    *)

Priced == price_eth # [t \in TargetTokens |-> Unset]

(* the target tokens that are the pool's token0 and token1 *)
Token0 == CHOOSE t \in TargetTokens : Lower(t) = pool_info.token0
Token1 == CHOOSE t \in TargetTokens : Lower(t) = pool_info.token1
NotInPool == { t \in TargetTokens :
                 Lower(t) # pool_info.token0 /\ Lower(t) # pool_info.token1 }

Pattern01 == decoded_event.amount0In # << >> /\ decoded_event.amount1Out # << >>
Pattern10 == decoded_event.amount1In # << >> /\ decoded_event.amount0Out # << >>

BigAbsDiff(a, b) == IF BigGe(a, b) THEN BigSub(a, b) ELSE BigSub(b, a)

(* the double f is within relative error 2^-51 of num / den *)
CloseTo(f, num, den) ==
    LET L == IF f.e >= 0 THEN BigMul(BigShl(f.m, f.e), den) ELSE BigMul(f.m, den)
        R == IF f.e >= 0 THEN num ELSE BigShl(num, 0 - f.e)
    IN  ~f.neg /\ BigLe(BigShl(BigAbsDiff(L, R), 51), R)

(* 1 - 2^-52 and 1 + 2^-52 *)
OneMinusUlp == FDivBig(BigSub(BigShl(<< 1 >>, 52), << 1 >>), BigShl(<< 1 >>, 52))
OnePlusUlp == FDivBig(BigAdd(BigShl(<< 1 >>, 52), << 1 >>), BigShl(<< 1 >>, 52))

C1_Case ==
    /\ calc = "v2" /\ Priced
    /\ Pattern01 /\ decoded_event.amount1In = << >> /\ decoded_event.amount0Out = << >>

(* C1 as stated: with amount0In = X > 0, amount1Out = Y > 0 and the other   *)
(* two amounts zero, the V2 prices of token0 and token1 multiply to        *)
(* exactly 1.                                                              *)
C1_ExactReciprocal ==
    C1_Case =>
        /\ price_eth[Token0].st = "price" /\ price_eth[Token1].st = "price"
        /\ FMul(price_eth[Token0].v, price_eth[Token1].v) = FOne

(* C1 amended: with amount0In = X > 0, amount1Out = Y > 0 and the other two *)
(* amounts zero, pricing token0 returns the double nearest Y/X and pricing *)
(* token1 the double nearest X/Y (decimal-adjusted, each within relative   *)
(* error 2^-51), and the float product of the two prices is within 2^-52   *)
(* of 1.                                                                   *)
C1_ReciprocalWithinRounding ==
    C1_Case =>
        LET X == BigMul(decoded_event.amount0In, Pow10(pool_info.decimals1))
            Y == BigMul(decoded_event.amount1Out, Pow10(pool_info.decimals0))
            p0 == price_eth[Token0]
            p1 == price_eth[Token1]
        IN  /\ p0.st = "price" /\ p1.st = "price"
            /\ CloseTo(p0.v, Y, X)
            /\ CloseTo(p1.v, X, Y)
            /\ FGe(FMul(p0.v, p1.v), OneMinusUlp)
            /\ FLe(FMul(p0.v, p1.v), OnePlusUlp)

C1_Witness ==
    /\ C1_Case
    /\ decoded_event.amount0In # decoded_event.amount1Out
    /\ FMul(price_eth[Token0].v, price_eth[Token1].v) # FOne

C2_Case == calc \in {"v2", "pc"} /\ Priced

(* C2 as stated: a price is returned only when exactly one of the two      *)
(* patterns holds; with none or both, the result is null.                  *)
C2_ExactlyOnePattern ==
    C2_Case =>
        \A t \in {Token0, Token1} :
            (price_eth[t].st = "price") <=> (Pattern01 # Pattern10)

(* C2 amended: a price is returned exactly when at least one of the two    *)
(* patterns holds and null only when neither holds; when both hold, the    *)
(* pattern tested first decides (amount1Out/amount0In for token0 and for   *)
(* PriceCalculator, amount0Out/amount1In for token1).                      *)
C2_AtLeastOnePattern ==
    C2_Case =>
        /\ \A t \in {Token0, Token1} :
              (price_eth[t].st = "price") <=> (Pattern01 \/ Pattern10)
        /\ (Pattern01 /\ Pattern10) =>
              LET d0 == IF calc = "v2" THEN pool_info.decimals0 ELSE 0
                  d1 == IF calc = "v2" THEN pool_info.decimals1 ELSE 0
              IN  /\ CloseTo(price_eth[Token0].v,
                             BigMul(decoded_event.amount1Out, Pow10(d0)),
                             BigMul(decoded_event.amount0In, Pow10(d1)))
                  /\ calc = "v2" =>
                        CloseTo(price_eth[Token1].v,
                                BigMul(decoded_event.amount0Out, Pow10(d1)),
                                BigMul(decoded_event.amount1In, Pow10(d0)))

C2_Witness ==
    /\ C2_Case /\ calc = "v2" /\ Pattern01 /\ Pattern10
    /\ price_eth[Token0].st = "price"
    /\ decoded_event.amount0In # decoded_event.amount1In

(* C3 as stated: every calculator returns null for a token that is neither *)
(* token0 nor token1 of the pool, and when both legs are zero.             *)
C3_NullOnEdgeCases ==
    Priced =>
        /\ \A t \in NotInPool : price_eth[t] = None
        /\ (~Pattern01 /\ ~Pattern10) => \A t \in TargetTokens : price_eth[t] = None

-----------------------------------------------------------------------------
(* Properties of find_big_buys_in_history.                                 *)

(* the event consumed last was appended to big_buys *)
LastEventReported ==
    /\ an_pc \in {"loop", "done"} /\ last_event.decoded
    /\ big_buys # << >>
    /\ big_buys[Len(big_buys)].tx_hash = events_seen

(* raw WETH entering the pool and raw counter-token leaving it *)
BaseIn(ev, pool) == IF pool.token0 = WETH THEN ev.amount0In ELSE ev.amount1In
OtherOut(ev, pool) == IF pool.token0 = WETH THEN ev.amount1Out ELSE ev.amount0Out

IsV2Buy(ev, pool) == BaseIn(ev, pool) # << >> /\ OtherOut(ev, pool) # << >>

(* C4 as stated: for every swap and every threshold_eth, a swap is in the   *)
(* returned list only if WETH enters the pool and the other token leaves   *)
(* it (base_in > 0 and other_out > 0).                                     *)
C4_OnlyBuysReported ==
    LastEventReported => IsV2Buy(last_event.ev, an_pool)

(* C7 as stated: with threshold 0.1, a buy of exactly 10^17 wei of WETH is  *)
(* classified large and a buy of 10^17 - 1 wei is not.                     *)
C7_ThresholdBoundary ==
    (/\ an_pc \in {"loop", "done"} /\ last_event.decoded
     /\ threshold_eth = FDivBig(<< 1 >>, << 10 >>)
     /\ IsV2Buy(last_event.ev, an_pool)) =>
        /\ BaseIn(last_event.ev, an_pool) = TenthEthWei => LastEventReported
        /\ BaseIn(last_event.ev, an_pool) = BelowTenthEthWei => ~LastEventReported

-----------------------------------------------------------------------------
(* Properties of the reference-price oracles.                              *)

Contains(seq, x) == \E i \in 1..Len(seq) : seq[i] = x

(* C9 as stated: on a cache miss the oracle first reads the reference       *)
(* pool's price at the requested block, queries the live oracle only if    *)
(* that read failed or gave a non-positive price, and uses the fixed       *)
(* constant only if both earlier tiers failed; no later tier is consulted  *)
(* once one succeeded.                                                     *)
C9_TiersInOrder ==
    (oracle # "idle" /\ last_call.tiers # << >>) =>
        /\ last_call.tiers[1] = "historical"
        /\ Contains(last_call.tiers, "live") => ~last_call.hist_ok
        /\ Contains(last_call.tiers, "fixed") =>
              ~last_call.hist_ok /\ ~last_call.live_ok
        /\ last_call.hist_ok => last_call.tiers = << "historical" >>
        /\ last_call.live_ok => ~Contains(last_call.tiers, "fixed")

(* the value the oracle of this run holds for the bucket of a block *)
CachedFor(block) ==
    IF oracle = "EnhancedUSDTOracle"
    THEN eth_usdt_price_cache[Bucket(block) * cache_block_size]
    ELSE price_cache[Bucket(block) * cache_block_size]

(* a request for a block whose bucket was requested before is answered     *)
(* from the cache and touches nothing                                      *)
C10_HitStep ==
    Bucket(last_call'.block) \in DOMAIN first_request =>
        /\ last_call'.tiers = << >>
        /\ last_call'.result = SomeInt(CachedFor(last_call'.block))
        /\ UNCHANGED << eth_usdt_price_cache, price_cache, slot0_reads >>

(* C10: over any sequence of price requests on one oracle instance at most  *)
(* one historical slot0 read is issued per bucket (block // 300), and a    *)
(* request whose bucket was already requested returns the cached value     *)
(* with no historical read, no live query and no fixed fallback.           *)
C10_OneReadPerBucket ==
    /\ [](\A k \in DOMAIN slot0_reads : slot0_reads[k] <= 1)
    /\ [][C10_HitStep]_vars

(* a second, different block of a bucket was answered from the cache after *)
(* the bucket's one historical read                                        *)
C10_Witness ==
    /\ oracle = "EnhancedUSDTOracle" /\ last_call.hit
    /\ Bucket(last_call.block) \in DOMAIN first_request
    /\ first_request[Bucket(last_call.block)] # last_call.block
    /\ ReadsOf(slot0_reads, Bucket(last_call.block)) = 1
    /\ Cardinality(DOMAIN eth_usdt_price_cache) > 1


-----------------------------------------------------------------------------
(* Properties of single-swap classification.                               *)

Classified == cl_result.st = "done"

(* the WETH leg of the raw event of a V3 swap *)
WethLegRaw ==
    IF WethIsToken0(cl_pool) THEN cl_swap.ev.amount0 ELSE cl_swap.ev.amount1

(* V2: the WETH that entered and left the pool, the other token that left *)
WethIn ==
    IF WethIsToken0(cl_pool) THEN cl_swap.ev.amount0In ELSE cl_swap.ev.amount1In
WethOut ==
    IF WethIsToken0(cl_pool) THEN cl_swap.ev.amount0Out ELSE cl_swap.ev.amount1Out
TokenOut ==
    IF WethIsToken0(cl_pool) THEN cl_swap.ev.amount1Out ELSE cl_swap.ev.amount0Out

(* the direction of the swap: V3 by the sign of the WETH leg, V2 by WETH in *)
(* and the other token out                                                 *)
SwapIsBuy ==
    IF cl_swap.ev.kind = "v3" THEN SIsPos(WethLegRaw)
    ELSE WethIn # << >> /\ TokenOut # << >>

(* the magnitude of the WETH leg in wei *)
BaseAmountWei ==
    IF cl_swap.ev.kind = "v3" THEN SAbs(WethLegRaw)
    ELSE IF WethIn # << >> THEN WethIn ELSE WethOut

LargeByBase == BigGe(BaseAmountWei, TenthEthWei)

(* the reference-currency value the classifier's oracle gave, and the      *)
(* threshold the classifier compares it with                               *)
RefValue ==
    IF classifier = "BigBuyStorage" THEN cl_result.oracle_value
    ELSE IF classifier = "EnhancedUSDTOracle" THEN cl_result.usdt_value
    ELSE cl_result.usdt_value_raw
RefThreshold ==
    IF classifier = "EnhancedUSDTOracle" THEN BIG_BUY_USDT_THRESHOLD
    ELSE threshold_usdt
LargeByRef == RefValue.st = "int" /\ BigGe(RefValue.n, RefThreshold)

(* the swap was returned or flagged as a large purchase *)
Flagged ==
    IF classifier = "BigBuyStorage" THEN cl_result.reported
    ELSE IF classifier = "EnhancedUSDTOracle" THEN cl_result.is_big_buy
    ELSE cl_result.bb = 1

(* C5 as stated: a V3 swap is classified as a buy exactly when the WETH leg *)
(* of its raw signed amounts is positive; a swap whose WETH leg is         *)
(* negative is not a buy.                                                  *)
C5_V3BuyIffBaseLegPositive ==
    (classifier = "BigBuyStorage" /\ Classified /\ cl_swap.ev.kind = "v3")
        => (cl_result.is_buy <=> SIsPos(WethLegRaw))

(* C6 as stated: a swap is returned or flagged as a large purchase if and  *)
(* only if it is a buy and its WETH amount reaches the base threshold or   *)
(* its reference-currency value reaches the reference threshold; a sell is *)
(* never flagged.                                                          *)
C6_FlaggedIffLargeBuy ==
    Classified => (Flagged <=> (SwapIsBuy /\ (LargeByBase \/ LargeByRef)))

(* the classifier had an oracle and pool metadata, and the oracle gave no  *)
(* value for the swap                                                      *)
OracleGaveNone ==
    /\ Classified
    /\ \/ classifier = "BigBuyStorage" /\ oracle = "USDTOracle"
       \/ classifier = "EnhancedUSDTOracle" /\ cl_result.has_metadata
    /\ RefValue = NoneInt

(* C8 as stated: when the oracle gives no value for a swap, the            *)
(* reference-currency flag is false and a buy at or above the base         *)
(* threshold is still reported.                                            *)
C8_NoPriceStillReported ==
    OracleGaveNone =>
        /\ classifier = "BigBuyStorage" => ~cl_result.is_big_buy_usdt
        /\ (SwapIsBuy /\ LargeByBase) => Flagged

(* C11: with several callers on one oracle and no locking, a value cached   *)
(* for a bucket or for a pool never changes once it is set: a second write  *)
(* for the same key stores the value already there.                        *)
C11_CachedValueNeverChanges ==
    [][/\ \A k \in DOMAIN eth_usdt_price_cache :
              /\ k \in DOMAIN eth_usdt_price_cache'
              /\ eth_usdt_price_cache'[k] = eth_usdt_price_cache[k]
       /\ \A k \in DOMAIN pool_metadata_cache :
              /\ k \in DOMAIN pool_metadata_cache'
              /\ pool_metadata_cache'[k] = pool_metadata_cache[k]]_vars

(* C12: every request an oracle resolves through the fixed 3500 USD        *)
(* fallback emits a log record of level warning or higher in that call.    *)
WarningOrHigher(logs) == \E i \in 1..Len(logs) : logs[i] \in {"warning", "error", "critical"}

C12_FallbackIsLogged ==
    Contains(last_call.tiers, "fixed") => WarningOrHigher(last_call.logs)

(* the pool pairs USDT with another token *)
UsdtPool == USDT \in { Lower(cl_pool.token0), Lower(cl_pool.token1) }

(* the magnitude of the USDT leg of the raw event *)
UsdtLegAbs ==
    IF cl_swap.ev.kind = "v3"
    THEN SAbs(IF Lower(cl_pool.token0) = USDT THEN cl_swap.ev.amount0 ELSE cl_swap.ev.amount1)
    ELSE IF Lower(cl_pool.token0) = USDT
    THEN (IF cl_swap.ev.amount0In # << >> THEN cl_swap.ev.amount0In ELSE cl_swap.ev.amount0Out)
    ELSE (IF cl_swap.ev.amount1In # << >> THEN cl_swap.ev.amount1In ELSE cl_swap.ev.amount1Out)

(* the classifier had an oracle and the pool's tokens to value the swap with *)
Valued ==
    /\ Classified
    /\ classifier = "BigBuyStorage" => oracle = "USDTOracle"
    /\ classifier = "SwapJSONLWriter" => cl_swap.has_pool_info
    /\ classifier = "EnhancedUSDTOracle" => cl_result.has_metadata

(* C13: for a swap in a pool one of whose tokens is USDT the reference      *)
(* amount is the absolute value of the USDT leg, and no ETH price is       *)
(* looked up: the price caches stay as they were (empty), also when the    *)
(* other token is WETH.                                                    *)
C13_UsdtLegValuedDirectly ==
    UsdtPool =>
        /\ price_cache = EmptyDict
        /\ eth_usdt_price_cache = EmptyDict
        /\ Valued => RefValue = SomeInt(UsdtLegAbs)

C13_Witness ==
    /\ UsdtPool
    /\ WETH \in { Lower(cl_pool.token0), Lower(cl_pool.token1) }
    /\ Valued
    /\ RefValue = SomeInt(Pow10(8))
    /\ cl_swap.ev.kind = "v2"

(* C14: a run in which no swap was priced returns the explicit outcome      *)
(* 'No prices found' (an error, no prices, no statistics), and the caller  *)
(* reports the run as having no data.                                      *)
C14_NoPricesReported ==
    /\ (ex_pc \in {"analyzed", "reported"} /\ prices = << >>) =>
           /\ ex_result.error = "No prices found"
           /\ ex_result.prices = << >>
           /\ ex_result.price_stats.st = "empty"
    /\ (ex_pc = "reported" /\ prices = << >>) => ex_report = "no_data"

C14_Witness ==
    /\ ex_pc = "reported"
    /\ prices = << >>
    /\ Len(swap_events) = 2
    /\ ex_report = "no_data"

(* C15: of two runs that priced no swap, one in which the transport         *)
(* returned no events and one in which events were returned but none was   *)
(* decodable or priceable, the reported results differ.                    *)
C15_EmptyCasesDistinguished ==
    (/\ ex_pc = "reported"
     /\ prev_run.case \in {"no_events", "none_priceable"}
     /\ RunCase \in {"no_events", "none_priceable"}
     /\ RunCase # prev_run.case) =>
        \/ ex_result # prev_run.result
        \/ ex_report # prev_run.report

(* the iteration of extract_prices on the event yields no price point *)
ExtractFails(event) ==
    \/ event.data = "short"
    \/ extract_prices_raises(event)
    \/ ExtractPrice(event.data).st = "None"

(* the big buys of the first n events of the list when the failing ones    *)
(* are left out of it: each of the others is examined after those before   *)
(* it, under its own transaction hash                                      *)
RECURSIVE FailingAbsent(_, _)
FailingAbsent(events, n) ==
    IF n = 0 THEN << >>
    ELSE IF ~events[n].decoded THEN FailingAbsent(events, n - 1)
    ELSE find_big_buys_event(FailingAbsent(events, n - 1), events[n].ev, an_pool,
                             threshold_eth, n)

(* find_big_buys_in_history went through its loop and returned *)
AnalyzerLooped ==
    an_pc = "done" /\ find_big_buys_enters_loop(an_pool, token_address)

(* C16: an event that fails to decode, has no determinable price or raises  *)
(* contributes no record and does not end the loop. extract_prices goes    *)
(* through the whole list and no price point is of a failing event;        *)
(* find_big_buys_in_history goes through the whole list, no big buy is of  *)
(* a failing event, and the big buys it returns are those the same list    *)
(* gives with the failing events left out.                                 *)
C16_ExtractLoop ==
    (ex_pc \in {"extracted", "analyzed", "reported"} /\ ex_pool_info.st = "ok") =>
        /\ ex_index = Len(swap_events)
        /\ \A k \in 1..Len(prices) : ~ExtractFails(swap_events[prices[k].log_index])

C16_AnalyzerLoop ==
    AnalyzerLooped =>
        /\ events_seen = Len(an_events)
        /\ \A k \in 1..Len(big_buys) : an_events[big_buys[k].tx_hash].decoded
        /\ big_buys = FailingAbsent(an_events, Len(an_events))

C18_MetadataReadOnce == pool_info_reads <= 1

(* C19: resolving the pool's metadata fails only when reading token0 or     *)
(* token1 fails; when only a decimals call fails it succeeds with 18.      *)
C19_DecimalsFailureTolerated ==
    /\ ex_pool_info.st = "raised" => ~ex_pool_info.token_ok
    /\ (ex_pool_info.st # "none" /\ ex_pool_info.token_ok /\ ~ex_pool_info.decimals_ok) =>
           /\ ex_pool_info.st = "ok"
           /\ ex_pool_info.decimals0 = 18
           /\ ex_pool_info.decimals1 = 18

(* C20: a log request that failed never reaches the extractor as an empty   *)
(* list of logs, which is what a request that matched nothing returns.     *)
C20_FailureNotEmptyList ==
    ~(ex_pc = "loop" /\ AnyFailed(requests) /\ swap_events = << >>)

(* C21: the batches EtherscanClient.get_swap_events requests partition     *)
(* from_block..to_block: each spans at most batch_size blocks inside the   *)
(* range, the first starts at from_block, each next one starts right after *)
(* the one before, and when the call returns the last one ended at         *)
(* to_block and every block of the range lies in exactly one batch,        *)
(* whatever the requests answered.                                         *)
C21_ChunksPartitionRange ==
    /\ \A i \in 1..Len(ch_requests) :
          /\ ch_requests[i].to_block - ch_requests[i].from_block + 1 <= ch_batch
          /\ ch_from <= ch_requests[i].from_block
          /\ ch_requests[i].to_block <= ch_to
    /\ ch_requests # << >> => ch_requests[1].from_block = ch_from
    /\ \A i \in 1..Len(ch_requests) - 1 :
          ch_requests[i + 1].from_block = ch_requests[i].to_block + 1
    /\ ch_pc = "returned" =>
          /\ ch_from <= ch_to =>
                /\ ch_requests # << >>
                /\ ch_requests[Len(ch_requests)].to_block = ch_to
          /\ \A b \in ch_from..ch_to :
                Cardinality({ i \in 1..Len(ch_requests) :
                                /\ ch_requests[i].from_block <= b
                                /\ b <= ch_requests[i].to_block }) = 1

C21_Witness ==
    /\ ch_pc = "returned"
    /\ ch_batch = 2
    /\ Len(ch_requests) = 3
    /\ ch_requests[1].outcome.st = "error"
    /\ ch_requests[2].outcome.st = "no_records"
    /\ ch_requests[3].from_block = ch_requests[3].to_block

(* C22: EtherscanClient.get_swap_events returns, for every from_block,     *)
(* to_block and batch_size it takes: every request moves current_block     *)
(* forward, and the call gets to its return.                               *)
C22_Terminates ==
    /\ [][ch_requests' # ch_requests => ch_current' > ch_current]_vars
    /\ <>(ch_pc = "returned")

(* the logs of the first n requests that succeeded, in the order of the    *)
(* requests                                                                *)
RECURSIVE LogsOfSucceeded(_, _)
LogsOfSucceeded(reqs, n) ==
    IF n = 0 THEN << >>
    ELSE LogsOfSucceeded(reqs, n - 1) \o
         (IF reqs[n].outcome.st = "ok" THEN reqs[n].outcome.logs ELSE << >>)

(* C23: a batch whose request fails or reports no records is skipped       *)
(* without retry: all_logs stays as it was and the walk goes on with the   *)
(* block after the batch; all_logs is at every moment the concatenation,   *)
(* in request order, of the logs of the requests that succeeded.           *)
C23_Concatenation == all_logs = LogsOfSucceeded(ch_requests, Len(ch_requests))

C23_SkipStep ==
    (/\ Len(ch_requests') = Len(ch_requests) + 1
     /\ ch_requests'[Len(ch_requests')].outcome.logs = << >>) =>
        /\ all_logs' = all_logs
        /\ ch_current' = ch_requests'[Len(ch_requests')].to_block + 1
        /\ ch_pc' = "loop"

C23_FailedChunkSkipped == []C23_Concatenation /\ [][C23_SkipStep]_vars

C23_Witness ==
    /\ ch_pc = "returned"
    /\ Len(ch_requests) = 3
    /\ ch_requests[1].outcome.logs # << >>
    /\ ch_requests[2].outcome.st = "error"
    /\ ch_requests[3].outcome.logs # << >>
    /\ Len(all_logs) = 3

(* C24: the logs of one batch are decoded and priced before the request    *)
(* for the next batch is issued.                                           *)
C24_ChunkProcessedBeforeNext ==
    [][requests' # requests => ex_index = Len(swap_events)]_vars

(* method 1 of the call for token t, and whether its result was rejected *)
PrimaryOf(t) == V3Primary(Lower(t), pool_info, price_ratio)
PrimaryInRange(t) == PrimaryOf(t).st = "value" /\ V3Reasonable(PrimaryOf(t).v)
PrimaryRejected(t) == PrimaryOf(t).st # "not_in_pool" /\ ~PrimaryInRange(t)

V3Done == calc = "v3" /\ methods_tried # << >>

(* C25: the V3 calculate_token_price returns None or a price p with        *)
(* 0 < p <= 1e10; the amounts method is evaluated only when the            *)
(* sqrtPriceX96 result was rejected, and a result in range is returned as  *)
(* it is.                                                                  *)
C25_PriceInRangeFallbackLast ==
    V3Done =>
        \A t \in TargetTokens :
            /\ \/ price_eth[t] = None
               \/ /\ price_eth[t].st = "price"
                  /\ FGt0(price_eth[t].v)
                  /\ FLe(price_eth[t].v, PriceCeiling)
            /\ Contains(methods_tried[t], "amounts") => PrimaryRejected(t)
            /\ PrimaryInRange(t) =>
                  /\ methods_tried[t] = << "sqrtPriceX96" >>
                  /\ price_eth[t] = Price(PrimaryOf(t).v)

C25_Witness ==
    /\ V3Done
    /\ \E t \in TargetTokens :
          /\ Contains(methods_tried[t], "amounts")
          /\ price_eth[t].st = "price"
    /\ \E t \in TargetTokens :
          /\ PrimaryInRange(t)
          /\ price_eth[t].st = "price"

(* the decimal legs of the swap *)
Leg0 == SDivPow10(decoded_event.amount0, pool_info.decimals0)
Leg1 == SDivPow10(decoded_event.amount1, pool_info.decimals1)

(* C26: when the primary price is rejected and both legs are non-zero the  *)
(* fallback returns the ratio of the absolute values of the decimal legs,  *)
(* |amount1| / |amount0| for token0 and |amount0| / |amount1| for token1,  *)
(* whatever their signs.                                                   *)
C26_FallbackAbsRatio ==
    V3Done =>
        \A t \in TargetTokens :
            (/\ PrimaryRejected(t)
             /\ ~FIsZero(Leg0)
             /\ ~FIsZero(Leg1)) =>
                price_eth[t] =
                    IF Lower(t) = pool_info.token0
                    THEN Price(FDiv(FAbs(Leg1), FAbs(Leg0)))
                    ELSE Price(FDiv(FAbs(Leg0), FAbs(Leg1)))

(* a point of the list with this price, block and timestamp *)
PointWith(usd, block, ts) ==
    \E i \in 1..Len(stat_prices) :
        /\ stat_prices[i].token_price_usd = usd
        /\ stat_prices[i].block_number = block
        /\ stat_prices[i].timestamp = ts

(* C27: over a non-empty list of points with positive USD prices the       *)
(* lowest and highest price are the minimum and maximum of the list, each  *)
(* with the block and timestamp of a point that attains it, the current    *)
(* price is that of a point of the greatest timestamp, total_swaps is the  *)
(* length, lowest <= current <= highest, the change from the low is not    *)
(* negative and the change from the high is not positive.                  *)
C27_PriceStats ==
    stats.st = "stats" =>
        /\ \A i \in 1..Len(stat_prices) :
              /\ FLe(stats.lowest_price_usd, stat_prices[i].token_price_usd)
              /\ FGe(stats.highest_price_usd, stat_prices[i].token_price_usd)
              /\ stat_prices[i].timestamp <= stats.current_price_timestamp
        /\ PointWith(stats.lowest_price_usd, stats.lowest_price_block,
                     stats.lowest_price_timestamp)
        /\ PointWith(stats.highest_price_usd, stats.highest_price_block,
                     stats.highest_price_timestamp)
        /\ PointWith(stats.current_price_usd, stats.current_price_block,
                     stats.current_price_timestamp)
        /\ stats.total_swaps = Len(stat_prices)
        /\ FLe(stats.lowest_price_usd, stats.current_price_usd)
        /\ FLe(stats.current_price_usd, stats.highest_price_usd)
        /\ ~FLt0(stats.price_change_from_low)
        /\ ~FGt0(stats.price_change_from_high)

C27_Witness ==
    /\ stats.st = "stats"
    /\ Len(stat_prices) = 3
    /\ stat_prices[1].timestamp = 2
    /\ stat_prices[3].timestamp = 1
    /\ stats.current_price_block = 101
    /\ FGt0(stats.price_change_from_low)
    /\ FLt0(stats.price_change_from_high)

(* C28: the failure of the big-buy analysis stays inside                   *)
(* analyze_token_complete: the call returns the extracted prices and their *)
(* statistics with error None, and big_buy_analysis is a record with no    *)
(* big buys, total_big_buys 0 and the text of the error.                   *)
C28_BigBuyFailureContained ==
    (ex_pc \in {"analyzed", "reported"} /\ prices # << >>) =>
        /\ ex_result.st = "result"
        /\ ex_result.prices = prices
        /\ ex_result.price_stats = [st |-> "stats", total_swaps |-> Len(prices)]
        /\ ex_result.error = "None"
        /\ ex_result.big_buy_analysis.st = "record"
        /\ ex_result.big_buy_analysis.big_buys = << >>
        /\ ex_result.big_buy_analysis.total_big_buys = 0
        /\ ex_result.big_buy_analysis.error # "None"

C28_Witness ==
    /\ ex_pc = "reported"
    /\ Len(prices) = 2
    /\ ex_result.big_buy_analysis.error = "TypeError"
    /\ ex_report = "data"

(* C30: process_file counts every line in exactly one class:               *)
(* valid_swaps + invalid_swaps = total_swaps, and normalized_swaps is at   *)
(* most total_swaps.                                                       *)
C30_EveryLineCountedOnce ==
    /\ nz_stats.total_swaps = Len(nz_lines)
    /\ nz_stats.valid_swaps + nz_stats.invalid_swaps = nz_stats.total_swaps
    /\ nz_stats.normalized_swaps <= nz_stats.total_swaps

=============================================================================
